---- MODULE Spec2Model ----
(***************************************************************************)
(* Model of dispaset/postprocessing/plot.py: plot_dispatch and plot_zone.  *)
(*                                                                         *)
(* A call of plot_dispatch is followed statement block by statement block  *)
(* (pc): netting of the interconnection columns, search of the zero line,  *)
(* construction of the two cumulative frames, the fill_between calls that  *)
(* draw the bands, the curtailment band, the reduced demand and the        *)
(* legend.  Spec is a direct call of plot_dispatch.  ZoneSpec is a call of *)
(* plot_zone: the zone and its plot data, the storage levels, the demand,  *)
(* the balance check, then plot_dispatch with the values computed.         *)
(*                                                                         *)
(* A pandas Series is a sequence of values (row i is timestamp i of the    *)
(* index); a DataFrame is the sequence of its columns in column order,     *)
(* each a record [label, data].  Values are integers: the arithmetic of    *)
(* the model is exact.                                                     *)
(***************************************************************************)
EXTENDS Integers, Sequences, FiniteSets

VARIABLES
    pc,            \* position in plot_dispatch
    plotdata,      \* the caller's DataFrame object (the argument is an alias of it)
    plotdata_in,   \* value of plotdata when the call was made
    idx_zero,      \* number of columns left of the zero line (0-based cursor)
    sumplot_neg,   \* cumulative frame of the negative block
    sumplot_pos,   \* cumulative frame of the positive block
    fills,         \* the fill_between calls made, in order
    demand,        \* demand Series
    shedload,      \* optional Series
    shiftedload,   \* optional Series
    curtailment,   \* optional Series
    aux_in,        \* values of the four series when the call was made
    reduced_demand,\* demand + load_change
    level,         \* optional reservoir level: None, a Series or a DataFrame
    labels,        \* the list labels
    patches,       \* the list patches
    legend,        \* the handles given to plt.legend
    inputs,        \* plot_zone: the inputs and results dictionaries and z
    z,             \* plot_zone: the zone considered
    lev,           \* plot_zone: the storage levels per unit
    log,           \* plot_zone: the messages logged
    returned,      \* plot_zone has returned True
    rng,           \* the rng argument of plot_dispatch
    pdrng,          \* the timestamps plotted
    network,       \* inputs and results of the network functions
    window,        \* idx, the timestamps looked at
    cgst,          \* the congestion frame of get_congestion
    col_i,         \* number of flow columns get_congestion has passed
    NetImports,    \* net position of every zone
    color_map      \* node colours of plot_net_flows_map, in node order

\* the arguments of plot_dispatch other than plotdata
arguments == <<plotdata_in, demand, shedload, shiftedload, curtailment, aux_in, level, rng>>

\* the state of plot_zone, the caller
caller == <<inputs, z, lev, log, returned>>

\* the state of get_congestion and plot_net_flows_map
grid == <<network, window, cgst, col_i, NetImports, color_map>>

vars == <<pc, plotdata, idx_zero, sumplot_neg, sumplot_pos, fills, reduced_demand,
          labels, patches, legend, arguments, caller, pdrng, grid>>

(***************************************************************************)
(* Bounds of the inputs.                                                   *)
(***************************************************************************)
\* number of timestamps of the generated frames
NumSteps == 2
\* generated frames hold values whose absolute values sum to at most MaxEnergy
MaxEnergy == 3

\* column labels of the generated frames
Labels == {"FlowOut", "FlowIn", "GAS"}

(***************************************************************************)
(* Elementary operations of numpy / pandas.                                *)
(***************************************************************************)
Abs(x) == IF x < 0 THEN -x ELSE x

\* np.minimum / np.maximum on one element
Minimum(a, b) == IF a <= b THEN a ELSE b
Maximum(a, b) == IF a >= b THEN a ELSE b

RECURSIVE SumSeq(_)
\* Series.sum(), the sequence summed by halves
SumSeq(s) ==
    IF s = <<>> THEN 0
    ELSE IF Len(s) = 1 THEN s[1]
    ELSE LET half == Len(s) \div 2
         IN  SumSeq(SubSeq(s, 1, half)) + SumSeq(SubSeq(s, half + 1, Len(s)))

\* Series.mean(): the exact quotient num / den
SeriesMean(s) == [num |-> SumSeq(s), den |-> Len(s)]

\* tmp < 0 in place of tmp <= 0
MeanLtZero(m) == m.num < 0

\* tmp <= 0 for a mean (den > 0)
MeanLeqZero(m) == m.num <= 0

\* the rows of a frame (all columns share the index)
Rows(frame) == IF frame = <<>> THEN {} ELSE DOMAIN frame[1].data

\* 'name' in frame
HasColumn(frame, name) == \E i \in DOMAIN frame : frame[i].label = name

\* frame[name]
Column(frame, name) == frame[CHOOSE i \in DOMAIN frame : frame[i].label = name].data

\* frame[name] = data, for an existing column: the column keeps its position
SetColumn(frame, name, data) ==
    [i \in DOMAIN frame |->
        IF frame[i].label = name THEN [label |-> name, data |-> data] ELSE frame[i]]

RECURSIVE RowTotal(_, _)
\* frame.sum(axis=1) at row t (0 for a frame without columns)
RowTotal(frame, t) ==
    IF frame = <<>> THEN 0 ELSE frame[1].data[t] + RowTotal(Tail(frame), t)

RECURSIVE CumSum(_)
\* frame.cumsum(axis=1): every column becomes the sum of the columns up to it
CumSum(frame) ==
    IF Len(frame) <= 1 THEN frame
    ELSE LET n    == Len(frame)
             head == CumSum(SubSeq(frame, 1, n - 1))
         IN  Append(head,
                    [label |-> frame[n].label,
                     data  |-> [t \in DOMAIN frame[n].data |->
                                   head[n - 1].data[t] + frame[n].data[t]]])

\* netting with FlowIn computed from the FlowOut already assigned
SeriesNetterSequential(frame) ==
    IF HasColumn(frame, "FlowIn") /\ HasColumn(frame, "FlowOut")
    THEN LET fin    == Column(frame, "FlowIn")
             fout   == Column(frame, "FlowOut")
             newOut == [t \in DOMAIN fout |-> Minimum(0, fin[t] + fout[t])]
             newIn  == [t \in DOMAIN fin |-> Maximum(0, newOut[t] + fin[t])]
         IN  SetColumn(SetColumn(frame, "FlowOut", newOut), "FlowIn", newIn)
    ELSE frame

\* netting with FlowIn left as the plain sum
SeriesNetterNoClamp(frame) ==
    IF HasColumn(frame, "FlowIn") /\ HasColumn(frame, "FlowOut")
    THEN LET fin    == Column(frame, "FlowIn")
             fout   == Column(frame, "FlowOut")
             newOut == [t \in DOMAIN fout |-> Minimum(0, fin[t] + fout[t])]
             newIn  == [t \in DOMAIN fin |-> fout[t] + fin[t]]
         IN  SetColumn(SetColumn(frame, "FlowOut", newOut), "FlowIn", newIn)
    ELSE frame

(***************************************************************************)
(* plot_dispatch, lines 56-59: netting the interconnections.  The tuple on *)
(* the right is evaluated before either column is assigned.                *)
(***************************************************************************)
SeriesNetter(frame) ==
    IF HasColumn(frame, "FlowIn") /\ HasColumn(frame, "FlowOut")
    THEN LET fin    == Column(frame, "FlowIn")
             fout   == Column(frame, "FlowOut")
             newOut == [t \in DOMAIN fout |-> Minimum(0, fin[t] + fout[t])]
             newIn  == [t \in DOMAIN fin |-> Maximum(0, fout[t] + fin[t])]
         IN  SetColumn(SetColumn(frame, "FlowOut", newOut), "FlowIn", newIn)
    ELSE frame

RECURSIVE ZeroLineFromUnbounded(_, _)
\* the zero line searched up to and including the last column
ZeroLineFromUnbounded(frame, idx) ==
    IF idx < Len(frame) /\ MeanLeqZero(SeriesMean(frame[idx + 1].data))
    THEN ZeroLineFromUnbounded(frame, idx + 1)
    ELSE idx

RECURSIVE ZeroLineFromFirstRow(_, _)
\* the zero line decided on the sign of the first timestep of each column
ZeroLineFromFirstRow(frame, idx) ==
    IF frame[idx + 1].data[1] <= 0 /\ idx < Len(frame) - 1
    THEN ZeroLineFromFirstRow(frame, idx + 1)
    ELSE idx

(***************************************************************************)
(* lines 61-67: the zero line.  idx is the 0-based cursor of the code.     *)
(***************************************************************************)
RECURSIVE ZeroLineFrom(_, _)
ZeroLineFrom(frame, idx) ==
    IF MeanLeqZero(SeriesMean(frame[idx + 1].data)) /\ idx < Len(frame) - 1
    THEN ZeroLineFrom(frame, idx + 1)
    ELSE idx

ZeroLine(frame) == ZeroLineFrom(frame, 0)

\* the negative block without the negation of its columns
NegativeStackNotNegated(frame, k) ==
    LET tmp2 == SubSeq(frame, 1, k)
        tmp  == [t \in Rows(frame) |-> RowTotal(tmp2, t)]
    IN  CumSum(<<[label |-> "sum", data |-> tmp]>> \o tmp2)

\* the negative block with the floor summed over every column of the frame
NegativeStackTotalOfAll(frame, k) ==
    LET tmp2 == SubSeq(frame, 1, k)
        tmp  == [t \in Rows(frame) |-> RowTotal(frame, t)]
        neg  == [i \in 1..k |->
                    [label |-> tmp2[i].label,
                     data  |-> [t \in DOMAIN tmp2[i].data |-> -tmp2[i].data[t]]]]
    IN  CumSum(<<[label |-> "sum", data |-> tmp]>> \o neg)

(***************************************************************************)
(* lines 69-75: the negative block.                                        *)
(***************************************************************************)
NegativeStack(frame, k) ==
    LET tmp2 == SubSeq(frame, 1, k)
        tmp  == [t \in Rows(frame) |-> RowTotal(tmp2, t)]
        neg  == [i \in 1..k |->
                    [label |-> tmp2[i].label,
                     data  |-> [t \in DOMAIN tmp2[i].data |-> -tmp2[i].data[t]]]]
    IN  CumSum(<<[label |-> "sum", data |-> tmp]>> \o neg)

\* the positive block started one column after the zero line
PositiveStackSkipsSplit(frame, k) ==
    LET cum      == CumSum(SubSeq(frame, k + 2, Len(frame)))
        withZero == Append(cum, [label |-> "zero", data |-> [t \in Rows(frame) |-> 0]])
        n        == Len(withZero)
    IN  <<withZero[n]>> \o SubSeq(withZero, 1, n - 1)

\* the positive block without the cumulative sum
PositiveStackNotCumulated(frame, k) ==
    <<[label |-> "zero", data |-> [t \in Rows(frame) |-> 0]]>>
        \o SubSeq(frame, k + 1, Len(frame))

(***************************************************************************)
(* lines 77-79: the positive block, with the 'zero' column moved in front. *)
(***************************************************************************)
PositiveStack(frame, k) ==
    LET cum      == CumSum(SubSeq(frame, k + 1, Len(frame)))
        withZero == Append(cum, [label |-> "zero", data |-> [t \in Rows(frame) |-> 0]])
        n        == Len(withZero)
    IN  <<withZero[n]>> \o SubSeq(withZero, 1, n - 1)

(***************************************************************************)
(* lines 123-147: the bands.  Band j of a block is filled between column j *)
(* and column j + 1 of the block's cumulative frame.                       *)
(***************************************************************************)
NegativeFills(neg, k) ==
    [j \in 1..k |->
        [block |-> "neg", col1 |-> neg[j].label, col2 |-> neg[j + 1].label,
         y1 |-> neg[j].data, y2 |-> neg[j + 1].data]]

PositiveFills(pos) ==
    [j \in 1..(Len(pos) - 1) |->
        [block |-> "pos", col1 |-> pos[j].label, col2 |-> pos[j + 1].label,
         y1 |-> pos[j].data, y2 |-> pos[j + 1].data]]

(***************************************************************************)
(* Optional Series arguments: present is FALSE for None.                   *)
(***************************************************************************)
NoSeries == [present |-> FALSE, index |-> <<>>, data |-> <<>>]

MakeSeries(index, data) == [present |-> TRUE, index |-> index, data |-> data]

\* pd.Series(0, index=index)
ZeroSeries(index) == MakeSeries(index, [t \in DOMAIN index |-> 0])

\* line 154: the band between the floor of the negative block less the
\* curtailment and the floor
CurtailmentFill(neg, curt) ==
    [block |-> "curtailment", col1 |-> "sum", col2 |-> "Curtailment",
     y1 |-> [t \in DOMAIN neg[1].data |-> neg[1].data[t] - curt.data[t]],
     y2 |-> neg[1].data]

\* the reduced demand kept at or above zero
ReducedDemandClamped(dem, shed, shift) ==
    MakeSeries(dem.index,
               [t \in DOMAIN dem.data |->
                   Maximum(0, dem.data[t] - (IF shed.present THEN shed.data[t] ELSE 0)
                                          - (IF shift.present THEN shift.data[t] ELSE 0))])

\* lines 162-176 when no index check fails: demand + load_change
ReducedDemand(dem, shed, shift) ==
    LET zero == ZeroSeries(dem.index).data
        lc1  == IF shed.present
                THEN [t \in DOMAIN zero |-> zero[t] + (-shed.data[t])] ELSE zero
        lc2  == IF shift.present
                THEN [t \in DOMAIN lc1 |-> lc1[t] + (-shift.data[t])] ELSE lc1
    IN  MakeSeries(dem.index, [t \in DOMAIN dem.data |-> dem.data[t] + lc2[t]])

\* two indexes compared by their lengths only
IndexEqualsLength(a, b) == Len(a) = Len(b)

\* Index.equals: the same timestamps in the same order
IndexEquals(a, b) == a = b

(***************************************************************************)
(* The level argument: None, a Series, or a DataFrame of family columns.   *)
(***************************************************************************)
NoLevel == [kind |-> "none", frame |-> <<>>]

SeriesLevel(data) == [kind |-> "series", frame |-> <<[label |-> "", data |-> data]>>]

FrameLevel(frame) == [kind |-> "frame", frame |-> frame]

(***************************************************************************)
(* commons['colors'] and commons['hatches'] are defined outside this       *)
(* file.  ColorTable is the set of their keys: the technology, fuel and    *)
(* flow labels of the configuration, 'WAT' and 'curtailment'.  A label     *)
(* outside the table makes commons['colors'][label] raise KeyError.        *)
(***************************************************************************)
ColorTable ==
    {"FlowOut", "FlowIn", "GAS", "Export", "Curtail", "Gas", "Wind",
     "HDAM", "HPHS", "BEVS", "BATS", "SCSP", "P2GS", "WAT", "curtailment"}

\* commons['colors'][label] and commons['hatches'][label] return
HasColor(label) == label \in ColorTable

\* the elements of a list
Range(list) == {list[i] : i \in DOMAIN list}

\* mpatches.Patch(facecolor=color, hatch=hatch, label=label): color and
\* hatch name the key of the table they were read under
Patch(label, color, hatch) == [label |-> label, color |-> color, hatch |-> hatch]

\* lines 98-113 and 116-118: the bands of the reservoir levels, on axes[1]
LevelFills(lvl) ==
    IF lvl.kind = "frame"
    THEN LET sumplot_lev == LET cum      == CumSum(lvl.frame)
                                withZero == Append(cum, [label |-> "zero",
                                                         data |-> [t \in Rows(lvl.frame) |-> 0]])
                                n        == Len(withZero)
                            IN  <<withZero[n]>> \o SubSeq(withZero, 1, n - 1)
         IN  [j \in 1..(Len(sumplot_lev) - 1) |->
                [block |-> "level", col1 |-> sumplot_lev[j].label,
                 col2 |-> sumplot_lev[j + 1].label,
                 y1 |-> sumplot_lev[j].data, y2 |-> sumplot_lev[j + 1].data]]
    ELSE IF lvl.kind = "series"
    THEN <<[block |-> "level", col1 |-> "zero", col2 |-> "WAT",
            y1 |-> [t \in DOMAIN lvl.frame[1].data |-> 0], y2 |-> lvl.frame[1].data]>>
    ELSE <<>>

\* one pass of a loop of lines 103-147 on the state st of the locals: the
\* colour and the hatch of col2 are read first, then the band is filled and
\* the lists are extended
DrawBand(st, band, kind) ==
    IF ~st.ok THEN st
    ELSE IF ~HasColor(band.col2) THEN [st EXCEPT !.ok = FALSE]
    ELSE IF band.block = "level" /\ kind = "series"
    THEN [st EXCEPT !.fills = Append(@, band)]
    ELSE IF band.block = "level"
    THEN [st EXCEPT !.fills = Append(@, band),
                    !.labels = Append(@, band.col2),
                    !.patches = Append(@, Patch(band.col2, band.col2, ""))]
    ELSE IF band.block = "neg"
    THEN IF band.col2 \notin Range(st.labels)
         THEN [st EXCEPT !.fills = Append(@, band),
                         !.labels = Append(@, band.col1),
                         !.patches = Append(@, Patch(band.col2, band.col2, band.col2))]
         ELSE [st EXCEPT !.fills = Append(@, band)]
    ELSE [st EXCEPT !.fills = Append(@, band),
                    !.labels = Append(@, band.col2),
                    !.patches = Append(@, Patch(band.col2, band.col2, band.col2))]

RECURSIVE DrawAll(_, _, _)
\* the loops of lines 103-147 over the bands, in order
DrawAll(st, bands, kind) ==
    IF bands = <<>> THEN st
    ELSE DrawAll(DrawBand(st, Head(bands), kind), Tail(bands), kind)

\* the reversed list, patches[::-1]
Reversed(list) == [i \in DOMAIN list |-> list[Len(list) + 1 - i]]

\* lines 178-195: the handles of the legend
LegendHandles(load_changed, lvl, pats) ==
    <<"Load">>
    \o (IF load_changed THEN <<"New load">> ELSE <<>>)
    \o (IF lvl.kind # "none" THEN <<"Reservoir">> ELSE <<>>)
    \o Reversed([i \in DOMAIN pats |-> pats[i].label])

(***************************************************************************)
(* plot_zone: the tables of the inputs and results dictionaries.  All      *)
(* tables of one call are on the same timestamps unless said otherwise.    *)
(***************************************************************************)
\* line 368: MW to GW (the values of the tables are whole multiples of it)
Scale == 1000

\* plot_dispatch called directly: no plot_zone state
NoInputs == [z_arg |-> "none"]

\* a key missing from a dictionary
NoTable == [present |-> FALSE, index |-> <<>>, cols |-> <<>>]

\* a DataFrame: an index and labelled columns on it
Table(index, cols) == [present |-> TRUE, index |-> index, cols |-> cols]

\* 'name' in results and key in results['name']
InTable(table, key) == table.present /\ HasColumn(table.cols, key)

\* results['name'][key]
TableSeries(table, key) == MakeSeries(table.index, Column(table.cols, key))

\* series / 1000
ScaleSeries(s) == [s EXCEPT !.data = [t \in DOMAIN s.data |-> s.data[t] \div Scale]]

\* frame / 1000
ScaleFrame(frame) ==
    [j \in DOMAIN frame |->
        [label |-> frame[j].label,
         data  |-> [t \in DOMAIN frame[j].data |-> frame[j].data[t] \div Scale]]]

\* -series
Negated(s) == [s EXCEPT !.data = [t \in DOMAIN s.data |-> -s.data[t]]]

\* pd.Series(series, index=index).fillna(0): the values of the timestamps
\* of index, 0 where the series has none
Reindex(s, index) ==
    MakeSeries(index,
               [t \in DOMAIN index |->
                   IF \E i \in DOMAIN s.index : s.index[i] = index[t]
                   THEN s.data[CHOOSE i \in DOMAIN s.index : s.index[i] = index[t]]
                   ELSE 0])

\* Series.max()
SeriesMax(data) == CHOOSE x \in Range(data) : \A y \in Range(data) : y <= x

\* Series.min()
SeriesMin(data) == CHOOSE x \in Range(data) : \A y \in Range(data) : x <= y

\* inputs['units'].loc[name]
UnitOf(units, name) == units[CHOOSE i \in DOMAIN units : units[i].name = name]

\* filter_by_zone: the columns of the units located in zone zn
filter_by_zone(frame, units, zn) ==
    LET InZone(col) == UnitOf(units, col.label).zone = zn
    IN  SelectSeq(frame, InZone)

\* filter_by_storage: the columns of the units of a subset of storage units
filter_by_storage(frame, units, StorageSubset) ==
    LET InSubset(col) == UnitOf(units, col.label).subset = StorageSubset
    IN  SelectSeq(frame, InSubset)

\* filter_by_tech: the columns of the units of technology t
filter_by_tech(frame, units, t) ==
    LET OfTech(col) == UnitOf(units, col.label).tech = t
    IN  SelectSeq(frame, OfTech)

\* get_plot_data: the generation and consumption of the zone per label, MW
get_plot_data(inp, zn) == inp.generation[zn]

(***************************************************************************)
(* plot_zone, lines 370-391: the storage levels.                           *)
(***************************************************************************)
\* line 379: the families whose levels are summed
StorageFamilies == <<"HDAM", "HPHS", "BEVS", "BATS", "SCSP", "P2GS">>

\* 'BEVS' in col, for a name made of parts
NameContains(name, part) == \E i \in DOMAIN name : name[i] = part

\* line 373: lev * StorageCapacity.loc[lev.columns] / 1e3
CapacityScaled(frame, units) ==
    [j \in DOMAIN frame |->
        [label |-> frame[j].label,
         data  |-> [t \in DOMAIN frame[j].data |->
                       (frame[j].data[t] * UnitOf(units, frame[j].label).capacity)
                           \div Scale]]]

\* lines 374-376: the columns whose name holds 'BEVS' times the
\* availability factor of the same name
AvailabilityWeighted(frame, af) ==
    [j \in DOMAIN frame |->
        IF NameContains(frame[j].label, "BEVS")
        THEN [label |-> frame[j].label,
              data  |-> [t \in DOMAIN frame[j].data |->
                            frame[j].data[t] * Column(af.cols, frame[j].label)[t]]]
        ELSE frame[j]]

\* every family column holding the sum of all units
FamilyLevelsUnfiltered(frame, units, sets_t, index) ==
    LET kept  == LET IsFamily(t) == t \in Range(StorageFamilies)
                 IN  SelectSeq(sets_t, IsFamily)
        added == LET IsNew(t) == t \notin Range(sets_t)
                 IN  SelectSeq(StorageFamilies, IsNew)
        cols  == kept \o added
    IN  [j \in DOMAIN cols |->
            [label |-> cols[j],
             data  |-> [t \in DOMAIN index |-> RowTotal(frame, t)]]]

\* lines 378-382: the frame on the columns of sets t, the family sums
\* assigned (a family not in sets t is appended), the columns left
\* unassigned (NaN) dropped
FamilyLevels(frame, units, sets_t, index) ==
    LET kept  == LET IsFamily(t) == t \in Range(StorageFamilies)
                 IN  SelectSeq(sets_t, IsFamily)
        added == LET IsNew(t) == t \notin Range(sets_t)
                 IN  SelectSeq(StorageFamilies, IsNew)
        cols  == kept \o added
    IN  [j \in DOMAIN cols |->
            [label |-> cols[j],
             data  |-> [t \in DOMAIN index |->
                           RowTotal(filter_by_tech(frame, units, cols[j]), t)]]]

\* the family columns all kept
KeepZeroColumns(frame) == frame

\* lines 383-385: the columns whose maximum and minimum are both 0 deleted
DropZeroColumns(frame) ==
    LET NotZero(col) == ~(SeriesMax(col.data) = 0 /\ SeriesMin(col.data) = 0)
    IN  SelectSeq(frame, NotZero)

\* line 370
aggregation == FALSE

\* lines 372-376: the levels per unit of the zone, in GWh, weighted
UnitLevels(inp, zn) ==
    IF inp.OutputStorageLevel.present
    THEN AvailabilityWeighted(
             CapacityScaled(filter_by_zone(inp.OutputStorageLevel.cols, inp.units, zn),
                            inp.units),
             inp.AvailabilityFactor)
    ELSE <<>>

\* lines 371-391: the level passed to plot_dispatch
ZoneLevel(inp, unitLevels) ==
    IF inp.OutputStorageLevel.present
    THEN LET index  == inp.OutputStorageLevel.index
             level0 == filter_by_storage(unitLevels, inp.units, "s")
             levels == DropZeroColumns(FamilyLevels(level0, inp.units, inp.sets.t, index))
         IN  IF aggregation
             THEN SeriesLevel([t \in DOMAIN index |-> RowTotal(level0, t)])
             ELSE FrameLevel(levels)
    ELSE SeriesLevel(ZeroSeries(inp.OutputPower.index).data)

(***************************************************************************)
(* plot_zone, lines 393-423: the demand and the energy balance.            *)
(***************************************************************************)
\* lines 393-405: demand_da + demand_p2h + demand_flex
ZoneDemand(inp, zn) ==
    LET index == inp.Demand.index
        zero  == ZeroSeries(inp.OutputPower.index).data
        p2h   == IF inp.OutputPowerConsumption.present
                 THEN LET cons == ScaleFrame(filter_by_zone(inp.OutputPowerConsumption.cols,
                                                            inp.units, zn))
                      IN  [t \in DOMAIN index |-> RowTotal(cons, t)]
                 ELSE zero
        flex  == IF HasColumn(inp.Demand.cols, <<"Flex", zn>>)
                 THEN ScaleSeries(TableSeries(inp.Demand, <<"Flex", zn>>)).data
                 ELSE zero
        da    == ScaleSeries(TableSeries(inp.Demand, <<"DA", zn>>)).data
    IN  MakeSeries(index, [t \in DOMAIN index |-> da[t] + p2h[t] + flex[t]])

\* lines 409-413
ZoneShedLoad(inp, zn, dem) ==
    IF InTable(inp.OutputShedLoad, zn)
    THEN Reindex(ScaleSeries(TableSeries(inp.OutputShedLoad, zn)), dem.index)
    ELSE ZeroSeries(dem.index)

\* lines 414-418
ZoneShiftedLoad(inp, zn, dem) ==
    IF InTable(inp.OutputDemandModulation, zn)
    THEN Reindex(ScaleSeries(Negated(TableSeries(inp.OutputDemandModulation, zn))),
                 dem.index)
    ELSE ZeroSeries(dem.index)

\* lines 425-428
ZoneCurtailment(inp, zn) ==
    IF InTable(inp.OutputCurtailedPower, zn)
    THEN ScaleSeries(TableSeries(inp.OutputCurtailedPower, zn))
    ELSE NoSeries

\* lines 407 and 419: (sum_generation - demand + shifted_load + shed_load).abs()
BalanceDiff(frame, dem, shed, shifted) ==
    [t \in DOMAIN dem.data |->
        Abs(RowTotal(frame, t) - dem.data[t] + shifted.data[t] + shed.data[t])]

\* the difference compared with >= in place of >
ExceedsOrMeetsTolerance(d, m) == 100 * d >= m

\* line 421: diff.max() > 0.01 * demand.max(), in exact arithmetic
ExceedsTolerance(d, m) == 100 * d > m

\* line 423: diff.max() / demand.max() * 100, the exact quotient num / den
Deviation(d, m) == [num |-> 100 * d, den |-> m]

\* lines 421-423: the messages of the balance check
BalanceLog(frame, dem, shed, shifted, zn) ==
    LET d == SeriesMax(BalanceDiff(frame, dem, shed, shifted))
        m == SeriesMax(dem.data)
    IN  IF ExceedsTolerance(d, m)
        THEN <<[msg |-> "balance", zone |-> zn, deviation |-> Deviation(d, m)]>>
        ELSE <<>>

(***************************************************************************)
(* Inputs.                                                                 *)
(***************************************************************************)
\* the sum of the absolute values of a vector
Norm(v) == SumSeq([i \in DOMAIN v |-> Abs(v[i])])

RECURSIVE Vectors(_, _)
\* the integer vectors of length m whose absolute values sum to at most e
Vectors(m, e) ==
    IF m = 0 THEN {<<>>}
    ELSE LET shorter == Vectors(m - 1, e)
         IN  {x \in {Append(w, v) : w \in shorter, v \in (-e)..e} : Norm(x) <= e}

\* the sequences of n distinct labels
LabelSeqs(n) ==
    {L \in [1..n -> Labels] : \A i, j \in 1..n : i # j => L[i] # L[j]}

\* the frames of n columns and NumSteps rows
Frames(n) ==
    {[i \in 1..n |->
        [label |-> L[i],
         data  |-> [t \in 1..NumSteps |-> v[(i - 1) * NumSteps + t]]]] :
     L \in LabelSeqs(n), v \in Vectors(n * NumSteps, MaxEnergy)}

\* the frame of the stack split example of the specification
ExampleFrame ==
    <<[label |-> "Export",  data |-> <<-5, -5>>],
      [label |-> "Curtail", data |-> <<0, 0>>],
      [label |-> "Gas",     data |-> <<60, 60>>],
      [label |-> "Wind",    data |-> <<40, 42>>]>>

\* the frames a call is made with: the generated frames and the example
IsInputFrame(frame) ==
    \/ \E n \in 1..Cardinality(Labels) : frame \in Frames(n)
    \/ frame = ExampleFrame

\* the index of a frame: timestamps 1, 2, ...
FrameIndex(frame) == [t \in Rows(frame) |-> t]

\* the demand passed with a frame: one unit at every timestamp of the frame
DemandOf(frame) == MakeSeries(FrameIndex(frame), [t \in Rows(frame) |-> 1])

\* the indexes an optional series may come with: the demand's index, the
\* demand's index less its last timestamp, the same timestamps in another order
IndexCases(index) ==
    {index, SubSeq(index, 1, Len(index) - 1),
     [t \in DOMAIN index |-> index[Len(index) + 1 - t]]}

\* the optional series passed with a demand: None, or all 0 or all 1 on one
\* of the indexes above
OptionalSeries(dem) ==
    {NoSeries} \cup
    {MakeSeries(idx, [t \in DOMAIN idx |-> v]) : idx \in IndexCases(dem.index), v \in {0, 1}}

\* the frames with which the optional series are varied
SmallFrames ==
    {<<[label |-> "GAS", data |-> [t \in 1..NumSteps |-> 1]]>>,
     <<[label |-> "FlowOut", data |-> [t \in 1..NumSteps |-> -1]],
       [label |-> "FlowIn", data |-> [t \in 1..NumSteps |-> 1]]>>}

\* the frames with which the level argument is varied: a storage column
\* in the negative block, a label without colour in either block
LegendFrames ==
    {<<[label |-> "HPHS", data |-> [t \in 1..NumSteps |-> -1]],
       [label |-> "GAS", data |-> [t \in 1..NumSteps |-> 2]]>>,
     <<[label |-> "XYZ", data |-> [t \in 1..NumSteps |-> -1]],
       [label |-> "GAS", data |-> [t \in 1..NumSteps |-> 2]]>>,
     <<[label |-> "HPHS", data |-> [t \in 1..NumSteps |-> -1]],
       [label |-> "GAS", data |-> [t \in 1..NumSteps |-> 1]],
       [label |-> "XYZ", data |-> [t \in 1..NumSteps |-> 1]]>>}

\* the level arguments: None, a Series, a DataFrame of some family columns
LevelCases ==
    {NoLevel, SeriesLevel([t \in 1..NumSteps |-> 0])} \cup
    {FrameLevel([i \in DOMAIN fams |->
                    [label |-> fams[i], data |-> [t \in 1..NumSteps |-> 1]]]) :
        fams \in {<<>>, <<"HPHS">>, <<"HDAM", "HPHS">>, <<"XYZ">>}}

(***************************************************************************)
(* plot_dispatch, lines 44-54: the timestamps plotted.                     *)
(***************************************************************************)
\* no network function is running
NoNetwork == [kind |-> "none"]

NoGrid ==
    /\ network = NoNetwork
    /\ window = <<>>
    /\ cgst = <<>>
    /\ col_i = 0
    /\ NetImports = <<>>
    /\ color_map = <<>>

\* rng=None
NoRange == [kind |-> "none", index |-> <<>>]

\* rng of another type than demand.index
OtherRange == [kind |-> "other", index |-> <<>>]

\* rng of the type of demand.index
IndexRange(index) == [kind |-> "index", index |-> index]

\* lines 45 and 52: plotdata.index[:min(len(plotdata) - 1, 7 * 24)]
DefaultRange(index) == SubSeq(index, 1, Minimum(Len(index) - 1, 7 * 24))

\* lines 49-50: rng starts or ends outside the index of plotdata
OutsideIndex(r, index) ==
    \/ r[1] < index[1]
    \/ r[1] > index[Len(index)]
    \/ r[Len(r)] < index[1]
    \/ r[Len(r)] > index[Len(index)]

\* the frames of about one week of hourly timestamps
LongFrames ==
    {<<[label |-> "GAS", data |-> [t \in 1..n |-> 1]]>> :
        n \in {7 * 24 - 1, 7 * 24, 7 * 24 + 1}}

\* the rng arguments passed with an index: None, another type, ranges
\* inside the index, ranges that start before it or end after it
RangeCases(index) ==
    LET first == index[1]
        last  == index[Len(index)]
    IN  {NoRange, OtherRange,
         IndexRange(<<first>>), IndexRange(<<first, last>>), IndexRange(<<last>>),
         IndexRange(<<first - 1, first>>), IndexRange(<<last, last + 1>>),
         IndexRange(<<last + 1>>), IndexRange(<<first - 1>>)}

\* every frame with the series plot_zone passes when nothing is shed,
\* shifted or curtailed; the small frames with every optional series; the
\* legend frames with every level; the small and the long frames with
\* every rng
Init ==
    /\ pc = "range"
    /\ pdrng = <<>>
    /\ idx_zero = 0
    /\ sumplot_neg = <<>>
    /\ sumplot_pos = <<>>
    /\ fills = <<>>
    /\ labels = <<>>
    /\ patches = <<>>
    /\ legend = <<>>
    /\ reduced_demand = NoSeries
    /\ \/ /\ IsInputFrame(plotdata)
          /\ demand = DemandOf(plotdata)
          /\ shedload = ZeroSeries(demand.index)
          /\ shiftedload = ZeroSeries(demand.index)
          /\ curtailment = NoSeries
          /\ level = NoLevel
          /\ rng = NoRange
       \/ /\ plotdata \in SmallFrames
          /\ demand = DemandOf(plotdata)
          /\ shedload \in OptionalSeries(demand)
          /\ shiftedload \in OptionalSeries(demand)
          /\ curtailment \in OptionalSeries(demand)
          /\ level = NoLevel
          /\ rng = NoRange
       \/ /\ plotdata \in LegendFrames
          /\ demand = DemandOf(plotdata)
          /\ shedload = ZeroSeries(demand.index)
          /\ shiftedload = NoSeries
          /\ curtailment \in {NoSeries, ZeroSeries(demand.index)}
          /\ level \in LevelCases
          /\ rng = NoRange
       \/ /\ plotdata \in SmallFrames \cup LongFrames
          /\ demand = DemandOf(plotdata)
          /\ shedload = NoSeries
          /\ shiftedload = NoSeries
          /\ curtailment = NoSeries
          /\ level = NoLevel
          /\ rng \in RangeCases(demand.index)
    /\ plotdata_in = plotdata
    /\ aux_in = <<demand, shedload, shiftedload, curtailment>>
    /\ inputs = NoInputs
    /\ z = ""
    /\ lev = <<>>
    /\ log = <<>>
    /\ returned = FALSE
    /\ NoGrid

(***************************************************************************)
(* The steps of plot_dispatch.                                             *)
(***************************************************************************)
\* lines 44-54: the timestamps plotted; an rng of another type ends the
\* call with ValueError
SelectRange ==
    /\ pc = "range"
    /\ IF rng.kind = "none"
       THEN /\ pdrng' = DefaultRange(FrameIndex(plotdata))
            /\ log' = log
            /\ pc' = "net"
       ELSE IF rng.kind # "index"
       THEN /\ pdrng' = pdrng
            /\ log' = Append(log, [msg |-> "rng must be a DatetimeIndex"])
            /\ pc' = "valueerror"
       ELSE IF OutsideIndex(rng.index, FrameIndex(plotdata))
       THEN /\ pdrng' = DefaultRange(FrameIndex(plotdata))
            /\ log' = Append(log, [msg |-> "plotting range not properly defined"])
            /\ pc' = "net"
       ELSE /\ pdrng' = rng.index
            /\ log' = log
            /\ pc' = "net"
    /\ UNCHANGED <<grid, plotdata, idx_zero, sumplot_neg, sumplot_pos, fills, reduced_demand,
                   labels, patches, legend, arguments, inputs, z, lev, returned>>

\* lines 56-59: the assignment writes into the caller's frame
Netting ==
    /\ pc = "net"
    /\ plotdata' = SeriesNetter(plotdata)
    /\ pc' = "zero"
    /\ UNCHANGED <<grid, idx_zero, sumplot_neg, sumplot_pos, fills, reduced_demand,
                   labels, patches, legend, arguments, caller, pdrng>>

\* lines 61-67
FindZeroLine ==
    /\ pc = "zero"
    /\ idx_zero' = ZeroLine(plotdata)
    /\ pc' = "stack"
    /\ UNCHANGED <<grid, plotdata, sumplot_neg, sumplot_pos, fills, reduced_demand,
                   labels, patches, legend, arguments, caller, pdrng>>

\* lines 69-79
BuildStacks ==
    /\ pc = "stack"
    /\ sumplot_neg' = NegativeStack(plotdata, idx_zero)
    /\ sumplot_pos' = PositiveStack(plotdata, idx_zero)
    /\ pc' = "draw"
    /\ UNCHANGED <<grid, plotdata, idx_zero, fills, reduced_demand,
                   labels, patches, legend, arguments, caller, pdrng>>

\* lines 92-147: the reservoir levels, the negative and the positive bands;
\* a label without colour ends the call with KeyError
DrawBands ==
    /\ pc = "draw"
    /\ LET start == [ok |-> TRUE, fills |-> <<>>, labels |-> <<>>, patches |-> <<>>]
           bands == LevelFills(level) \o NegativeFills(sumplot_neg, idx_zero)
                       \o PositiveFills(sumplot_pos)
           st    == DrawAll(start, bands, level.kind)
       IN  /\ fills' = st.fills
           /\ labels' = st.labels
           /\ patches' = st.patches
           /\ pc' = IF st.ok THEN "curtail" ELSE "keyerror"
    /\ UNCHANGED <<grid, plotdata, idx_zero, sumplot_neg, sumplot_pos, reduced_demand,
                   legend, arguments, caller, pdrng>>

\* lines 149-157
DrawCurtailment ==
    /\ pc = "curtail"
    /\ IF curtailment.present /\ ~IndexEquals(curtailment.index, demand.index)
       THEN pc' = "exit" /\ UNCHANGED <<grid, fills, labels, patches>>
       ELSE /\ pc' = "load"
            /\ IF curtailment.present
               THEN /\ fills' = Append(fills, CurtailmentFill(sumplot_neg, curtailment))
                    /\ labels' = Append(labels, "Curtailment")
                    /\ patches' = Append(patches, Patch("Curtailment", "curtailment", ""))
               ELSE UNCHANGED <<grid, fills, labels, patches>>
    /\ UNCHANGED <<grid, plotdata, idx_zero, sumplot_neg, sumplot_pos, reduced_demand,
                   legend, arguments, caller, pdrng>>

\* lines 162-195
ChangeLoad ==
    /\ pc = "load"
    /\ IF \/ shedload.present /\ ~IndexEquals(shedload.index, demand.index)
          \/ shiftedload.present /\ ~IndexEquals(shiftedload.index, demand.index)
       THEN pc' = "exit" /\ UNCHANGED <<grid, reduced_demand, legend, fills>>
       ELSE LET load_changed == shedload.present \/ shiftedload.present
                reduced      == ReducedDemand(demand, shedload, shiftedload)
            IN  /\ pc' = "done"
                /\ reduced_demand' = reduced
                /\ legend' = LegendHandles(load_changed, level, patches)
                /\ fills' = IF load_changed
                            THEN Append(fills, [block |-> "load", col1 |-> "Load",
                                                col2 |-> "New load",
                                                y1 |-> demand.data, y2 |-> reduced.data])
                            ELSE fills
    /\ UNCHANGED <<grid, plotdata, idx_zero, sumplot_neg, sumplot_pos,
                   labels, patches, arguments, caller, pdrng>>

Next ==
    \/ SelectRange
    \/ Netting
    \/ FindZeroLine
    \/ BuildStacks
    \/ DrawBands
    \/ DrawCurtailment
    \/ ChangeLoad

Spec == Init /\ [][Next]_vars

(***************************************************************************)
(* Inputs of plot_zone.                                                    *)
(***************************************************************************)
\* the timestamps of the results
Horizon == [t \in 1..NumSteps |-> t]

\* a constant column
Const(v) == [t \in 1..NumSteps |-> v]

\* a column that is v at the first timestamp and 0 afterwards
First(v) == [t \in 1..NumSteps |-> IF t = 1 THEN v ELSE 0]

\* inputs['units']: name, zone, technology, subset of sets, StorageCapacity;
\* two units of one family, a vehicle unit named after its family and one
\* that is not, a battery named after the vehicles, a unit of another zone,
\* a storage technology outside the families, a unit outside the subset s,
\* a power-to-heat unit
AllUnits ==
    <<[name |-> <<"Z1", "HPHS", "1">>, zone |-> "Z1", tech |-> "HPHS",
       subset |-> "s", capacity |-> 1000],
      [name |-> <<"Z1", "HPHS", "2">>, zone |-> "Z1", tech |-> "HPHS",
       subset |-> "s", capacity |-> 2000],
      [name |-> <<"Z1", "BEVS">>, zone |-> "Z1", tech |-> "BEVS",
       subset |-> "s", capacity |-> 1000],
      [name |-> <<"Z1", "EV", "fleet">>, zone |-> "Z1", tech |-> "BEVS",
       subset |-> "s", capacity |-> 1000],
      [name |-> <<"Z1", "BEVS", "buffer">>, zone |-> "Z1", tech |-> "BATS",
       subset |-> "s", capacity |-> 1000],
      [name |-> <<"Z2", "HPHS">>, zone |-> "Z2", tech |-> "HPHS",
       subset |-> "s", capacity |-> 1000],
      [name |-> <<"Z1", "THMS">>, zone |-> "Z1", tech |-> "THMS",
       subset |-> "s", capacity |-> 1000],
      [name |-> <<"Z1", "CHP">>, zone |-> "Z1", tech |-> "STUR",
       subset |-> "chp", capacity |-> 1000],
      [name |-> <<"Z1", "P2HT">>, zone |-> "Z1", tech |-> "P2HT",
       subset |-> "p2h", capacity |-> 1000]>>

\* the units that have a column in OutputStorageLevel
WithLevel == {i \in DOMAIN AllUnits : AllUnits[i].subset # "p2h"}

\* a table with the one column zn, whose value at timestamp ts is shape[ts]
ZoneTable(index, zn, shape) ==
    Table(index, <<[label |-> zn, data |-> [t \in DOMAIN index |-> shape[index[t]]]]>>)

\* zone Z1 balanced at 2 GW and zone Z2 at 1 GW, without storage, shed,
\* shifted or curtailed power
NominalInputs ==
    [z_arg |-> "Z1",
     sets  |-> [n |-> <<"Z1", "Z2">>,
                t |-> <<"HPHS", "GAS", "BEVS", "THMS", "STUR", "P2HT">>],
     units |-> AllUnits,
     generation |-> [zn \in {"Z1", "Z2"} |->
                        <<[label |-> "GAS",
                           data  |-> Const(IF zn = "Z1" THEN 2000 ELSE 1000)]>>],
     Demand |-> Table(Horizon, <<[label |-> <<"DA", "Z1">>, data |-> Const(2000)],
                                 [label |-> <<"DA", "Z2">>, data |-> Const(1000)]>>),
     AvailabilityFactor |->
         Table(Horizon, [i \in DOMAIN AllUnits |->
                            [label |-> AllUnits[i].name, data |-> Const(1)]]),
     OutputPower |-> Table(Horizon, <<>>),
     OutputPowerConsumption |-> NoTable,
     OutputStorageLevel |-> NoTable,
     OutputShedLoad |-> NoTable,
     OutputDemandModulation |-> NoTable,
     OutputCurtailedPower |-> NoTable]

\* OutputStorageLevel: up to two units, each empty, full, or full at first
StorageTables ==
    LET shapes == {Const(0), Const(1), First(1)}
        column(i, shape) == [label |-> AllUnits[i].name, data |-> shape]
    IN  {Table(Horizon, <<>>)}
        \cup {Table(Horizon, <<column(i, a)>>) : i \in WithLevel, a \in shapes}
        \cup {Table(Horizon, <<column(ij[1], a), column(ij[2], b)>>) :
                 ij \in {p \in WithLevel \X WithLevel : p[1] < p[2]},
                 a \in shapes, b \in shapes}

\* OutputStorageLevel with a pumped-hydro unit in either zone
BothZonesStorage ==
    Table(Horizon, <<[label |-> <<"Z1", "HPHS", "1">>, data |-> Const(1)],
                     [label |-> <<"Z2", "HPHS">>, data |-> First(1)]>>)

\* AvailabilityFactor: all units available, or none at the first timestamp
AvailabilityTables ==
    {Table(Horizon, [i \in DOMAIN AllUnits |->
                        [label |-> AllUnits[i].name,
                         data  |-> [t \in 1..NumSteps |-> IF t = 1 THEN first ELSE 1]]]) :
        first \in {0, 1}}

\* sets t: with some families, in another order than line 379, or with none
TechLists == {NominalInputs.sets.t, <<"GAS", "THMS">>}

\* the frames of get_plot_data for the zone
GenerationCases ==
    {<<[label |-> "GAS", data |-> Const(g)]>> : g \in {1000, 2000, 3000}}
    \cup {<<[label |-> "FlowOut", data |-> Const(-1000)],
            [label |-> "FlowIn", data |-> Const(1000)],
            [label |-> "GAS", data |-> Const(2000)]>>,
          <<[label |-> "FlowOut", data |-> Const(-2000)],
            [label |-> "FlowIn", data |-> Const(1000)],
            [label |-> "GAS", data |-> Const(3000)]>>,
          <<[label |-> "FlowOut", data |-> Const(-1000)],
            [label |-> "FlowIn", data |-> First(2000)],
            [label |-> "GAS", data |-> Const(1000)]>>,
          <<[label |-> "GAS", data |-> Const(1000)],
            [label |-> "XYZ", data |-> Const(1000)]>>}

\* Demand: the day-ahead demand of both zones, with or without a flexible one
DemandCases ==
    {Table(Horizon, <<[label |-> <<"DA", "Z1">>, data |-> Const(d)],
                      [label |-> <<"DA", "Z2">>, data |-> Const(2000)]>> \o flex) :
        d \in {1000, 2000},
        flex \in {<<>>, <<[label |-> <<"Flex", "Z1">>, data |-> Const(1000)]>>}}

\* OutputPowerConsumption: missing, or the power-to-heat unit
ConsumptionCases ==
    {NoTable, Table(Horizon, <<[label |-> <<"Z1", "P2HT">>, data |-> Const(1000)]>>)}

\* OutputShedLoad: missing, without the zone, or on one of the indexes
ShedCases ==
    {NoTable, ZoneTable(Horizon, "Z2", Const(1000))}
    \cup {ZoneTable(idx, "Z1", shape) :
             idx \in IndexCases(Horizon), shape \in {Const(0), Const(1000), First(1000)}}

\* OutputDemandModulation: missing, or on one of the indexes
ModulationCases ==
    {NoTable} \cup {ZoneTable(idx, "Z1", First(1000)) : idx \in IndexCases(Horizon)}

\* OutputCurtailedPower: missing, on the index, or without the last timestamp
CurtailedCases ==
    {NoTable, ZoneTable(Horizon, "Z1", Const(1000)),
     ZoneTable(SubSeq(Horizon, 1, NumSteps - 1), "Z1", Const(1000))}

\* the balance example of the specification: demand 100 GW at every
\* timestamp, generation 100 GW but at the last timestamp
ExampleGeneration ==
    {<<[label |-> "GAS",
        data  |-> [t \in 1..NumSteps |-> IF t = NumSteps THEN g ELSE 100000]]>> :
        g \in {98000, 99000, 100000, 101000, 102000}}

\* plot_zone is entered: nothing is assigned yet
ZoneInit ==
    /\ pc = "zone"
    /\ plotdata = <<>>
    /\ plotdata_in = <<>>
    /\ idx_zero = 0
    /\ sumplot_neg = <<>>
    /\ sumplot_pos = <<>>
    /\ fills = <<>>
    /\ labels = <<>>
    /\ patches = <<>>
    /\ legend = <<>>
    /\ demand = NoSeries
    /\ shedload = NoSeries
    /\ shiftedload = NoSeries
    /\ curtailment = NoSeries
    /\ reduced_demand = NoSeries
    /\ level = NoLevel
    /\ aux_in = <<NoSeries, NoSeries, NoSeries, NoSeries>>
    /\ z = ""
    /\ lev = <<>>
    /\ log = <<>>
    /\ returned = FALSE
    /\ NoGrid
    /\ rng = NoRange
    /\ pdrng = <<>>
    /\ \/ \E arg \in {"", "Z1", "Z2", "ZZ"}, tbl \in {NoTable, BothZonesStorage} :
             inputs = [NominalInputs EXCEPT !.z_arg = arg, !.OutputStorageLevel = tbl]
       \/ \E tbl \in StorageTables, af \in AvailabilityTables, techs \in TechLists :
             inputs = [NominalInputs EXCEPT !.OutputStorageLevel = tbl,
                                            !.AvailabilityFactor = af,
                                            !.sets.t = techs]
       \/ \E gen \in GenerationCases, dem \in DemandCases, cons \in ConsumptionCases,
             shed \in ShedCases, mod \in ModulationCases, curt \in CurtailedCases :
             inputs = [NominalInputs EXCEPT !.generation["Z1"] = gen,
                                            !.Demand = dem,
                                            !.OutputPowerConsumption = cons,
                                            !.OutputShedLoad = shed,
                                            !.OutputDemandModulation = mod,
                                            !.OutputCurtailedPower = curt]
       \/ \E gen \in ExampleGeneration :
             inputs = [NominalInputs EXCEPT
                          !.generation["Z1"] = gen,
                          !.Demand = Table(Horizon,
                                           <<[label |-> <<"DA", "Z1">>, data |-> Const(100000)],
                                             [label |-> <<"DA", "Z2">>, data |-> Const(2000)]>>)]

(***************************************************************************)
(* The steps of plot_zone.                                                 *)
(***************************************************************************)
\* the zone drawn at random also when the zone given is in the results
SelectZoneAlwaysRandom ==
    /\ pc = "zone"
    /\ z' \in Range(inputs.sets.n)
    /\ log' = log
    /\ plotdata' = ScaleFrame(get_plot_data(inputs, z'))
    /\ pc' = "storage"
    /\ UNCHANGED <<grid, idx_zero, sumplot_neg, sumplot_pos, fills, reduced_demand,
                   labels, patches, legend, arguments, inputs, lev, returned, pdrng>>

\* lines 358-368: the zone, drawn at random when none or an unknown one is
\* given, and its plot data in GW
SelectZone ==
    /\ pc = "zone"
    /\ IF inputs.z_arg = ""
       THEN /\ z' \in Range(inputs.sets.n)
            /\ log' = log
       ELSE IF inputs.z_arg \notin Range(inputs.sets.n)
       THEN /\ z' \in Range(inputs.sets.n)
            /\ log' = log \o <<[msg |-> "not in the results", zone |-> inputs.z_arg],
                               [msg |-> "randomly selected", zone |-> z']>>
       ELSE /\ z' = inputs.z_arg
            /\ log' = log
    /\ plotdata' = ScaleFrame(get_plot_data(inputs, z'))
    /\ pc' = "storage"
    /\ UNCHANGED <<grid, idx_zero, sumplot_neg, sumplot_pos, fills, reduced_demand,
                   labels, patches, legend, arguments, inputs, lev, returned, pdrng>>

\* lines 370-391
StorageLevels ==
    /\ pc = "storage"
    /\ lev' = UnitLevels(inputs, z)
    /\ level' = ZoneLevel(inputs, lev')
    /\ pc' = "demand"
    /\ UNCHANGED <<grid, plotdata, idx_zero, sumplot_neg, sumplot_pos, fills, reduced_demand,
                   labels, patches, legend, plotdata_in, demand, shedload, shiftedload,
                   curtailment, aux_in, inputs, z, log, returned, rng, pdrng>>

\* lines 393-418
AssembleDemand ==
    /\ pc = "demand"
    /\ demand' = ZoneDemand(inputs, z)
    /\ shedload' = ZoneShedLoad(inputs, z, demand')
    /\ shiftedload' = ZoneShiftedLoad(inputs, z, demand')
    /\ pc' = "balance"
    /\ UNCHANGED <<grid, plotdata, idx_zero, sumplot_neg, sumplot_pos, fills, reduced_demand,
                   labels, patches, legend, plotdata_in, curtailment, aux_in, level,
                   caller, rng, pdrng>>

\* the balance check ending the call on a violation
CheckBalanceAborting ==
    /\ pc = "balance"
    /\ log' = log \o BalanceLog(plotdata, demand, shedload, shiftedload, z)
    /\ pc' = IF log' # log THEN "exit" ELSE "call"
    /\ UNCHANGED <<grid, plotdata, idx_zero, sumplot_neg, sumplot_pos, fills, reduced_demand,
                   labels, patches, legend, arguments, inputs, z, lev, returned, pdrng>>

\* lines 419-423: a violation is logged, nothing else
CheckBalance ==
    /\ pc = "balance"
    /\ log' = log \o BalanceLog(plotdata, demand, shedload, shiftedload, z)
    /\ pc' = "call"
    /\ UNCHANGED <<grid, plotdata, idx_zero, sumplot_neg, sumplot_pos, fills, reduced_demand,
                   labels, patches, legend, arguments, inputs, z, lev, returned, pdrng>>

\* lines 425-431: the curtailment, and plot_dispatch is entered
CallDispatch ==
    /\ pc = "call"
    /\ curtailment' = ZoneCurtailment(inputs, z)
    /\ plotdata_in' = plotdata
    /\ aux_in' = <<demand, shedload, shiftedload, curtailment'>>
    /\ pc' = "range"
    /\ UNCHANGED <<grid, plotdata, idx_zero, sumplot_neg, sumplot_pos, fills, reduced_demand,
                   labels, patches, legend, demand, shedload, shiftedload, level, caller, rng, pdrng>>

\* lines 433-442: plot_dispatch has returned; the rug plot, return True
Return ==
    /\ pc = "done"
    /\ inputs # NoInputs
    /\ returned' = TRUE
    /\ pc' = "returned"
    /\ UNCHANGED <<grid, plotdata, idx_zero, sumplot_neg, sumplot_pos, fills, reduced_demand,
                   labels, patches, legend, arguments, inputs, z, lev, log, pdrng>>

ZoneNext ==
    \/ SelectZone
    \/ StorageLevels
    \/ AssembleDemand
    \/ CheckBalance
    \/ CallDispatch
    \/ Next
    \/ Return

ZoneSpec == ZoneInit /\ [][ZoneNext]_vars

(***************************************************************************)
(* get_congestion (lines 1107-1118).  A line label is its text cut in      *)
(* parts: "Z1 -> RoW" is <<"Z1", " -> ", "RoW">>; no part other than "RoW"  *)
(* holds these three letters.                                              *)
(***************************************************************************)
\* line 1111: l[:3] == 'RoW'
StartsWithRoW(l) == Len(l) > 0 /\ l[1] = "RoW"

\* line 1111: l[-3:] == 'RoW'
EndsWithRoW(l) == Len(l) > 0 /\ l[Len(l)] = "RoW"

\* line 1108: "RoW" in x
ContainsRoW(l) == \E i \in DOMAIN l : l[i] = "RoW"

\* line 1108: the lines of the line set kept as columns
WithoutRoW(l) == ~ContainsRoW(l)

\* a cell of the frame without a value, and one with a value
NaNCell == [na |-> TRUE, v |-> 0]

Cell(v) == [na |-> FALSE, v |-> v]

\* line 1109: pd.DataFrame(columns=cols), no row yet
EmptyFrame(cols) == [i \in DOMAIN cols |-> [label |-> cols[i], data |-> <<>>]]

\* lines 1112-1114: the number of timestamps of idx where the flow equals a
\* positive FlowMaximum
CongestedCount(flow, maximum, idx) ==
    Cardinality({i \in DOMAIN idx :
                    flow[idx[i]] = maximum[idx[i]] /\ maximum[idx[i]] > 0})

\* line 1112: cgst.loc[0, l] = v; row 0 and column l are created when missing
SetCell(frame, l, v) ==
    LET withrow == [i \in DOMAIN frame |->
                       IF frame[i].data = <<>>
                       THEN [frame[i] EXCEPT !.data = <<NaNCell>>]
                       ELSE frame[i]]
    IN  IF \E i \in DOMAIN withrow : withrow[i].label = l
        THEN [i \in DOMAIN withrow |->
                 IF withrow[i].label = l
                 THEN [withrow[i] EXCEPT !.data = <<Cell(v)>>]
                 ELSE withrow[i]]
        ELSE Append(withrow, [label |-> l, data |-> <<Cell(v)>>])

\* line 1116: fillna(0)
FillNa(frame) ==
    [i \in DOMAIN frame |->
        [frame[i] EXCEPT !.data = [r \in DOMAIN frame[i].data |->
                                      IF frame[i].data[r].na THEN Cell(0)
                                      ELSE frame[i].data[r]]]]

\* a quotient kept exact; n = 0 is the 0 / 0 of an empty idx, NaN
Fraction(c, n) == [num |-> c, den |-> n]

\* line 1117: cgst / n
DivideFrame(frame, n) ==
    [i \in DOMAIN frame |->
        [frame[i] EXCEPT !.data = [r \in DOMAIN frame[i].data |->
                                      Fraction(frame[i].data[r].v, n)]]]

\* line 1117: inputs['param_df']['Demand'].loc[idx, :].index.size, the
\* number of rows of Demand selected by idx
DemandRows(index, idx) == Len(SelectSeq(idx, LAMBDA t : t \in Range(index)))

RECURSIVE Pick(_, _)
\* the elements of s at the positions of S, in order
Pick(s, S) ==
    IF s = <<>> THEN <<>>
    ELSE Pick(SubSeq(s, 1, Len(s) - 1), S)
         \o (IF Len(s) \in S THEN <<s[Len(s)]>> ELSE <<>>)

Subsequences(s) == {Pick(s, S) : S \in SUBSET DOMAIN s}

\* the index of Demand, FlowMaximum and the flows
CongestionIndex == <<1, 2, 3>>

\* an inner line, two lines of the rest of the world, and a line whose label
\* holds the marker without starting or ending with it
LineLabels ==
    << <<"Z1", " -> ", "Z2">>, <<"RoW", " -> ", "Z1">>, <<"Z1", " -> ", "RoW">>,
       <<"Z2", " -> ", "RoW", "est">> >>

\* the flow of every line of a flow table, and FlowMaximum of every line
FlowVectors == {<<1, 1, 1>>, <<1, 0, 1>>, <<0, 0, 0>>}

CapacityVectors == {<<1, 1, 1>>, <<1, 0, 0>>, <<0, 0, 0>>}

UniformTable(cols, v) == [i \in DOMAIN cols |-> [label |-> cols[i], data |-> v]]

CongestionInit ==
    /\ pc = "cols"
    /\ plotdata = <<>>
    /\ plotdata_in = <<>>
    /\ idx_zero = 0
    /\ sumplot_neg = <<>>
    /\ sumplot_pos = <<>>
    /\ fills = <<>>
    /\ labels = <<>>
    /\ patches = <<>>
    /\ legend = <<>>
    /\ demand = NoSeries
    /\ shedload = NoSeries
    /\ shiftedload = NoSeries
    /\ curtailment = NoSeries
    /\ reduced_demand = NoSeries
    /\ level = NoLevel
    /\ aux_in = <<NoSeries, NoSeries, NoSeries, NoSeries>>
    /\ inputs = NoInputs
    /\ z = ""
    /\ lev = <<>>
    /\ log = <<>>
    /\ returned = FALSE
    /\ rng = NoRange
    /\ pdrng = <<>>
    /\ cgst = <<>>
    /\ col_i = 0
    /\ NetImports = <<>>
    /\ color_map = <<>>
    /\ \E setl \in Subsequences(LineLabels), cols \in Subsequences(LineLabels),
          fv \in FlowVectors, cv \in CapacityVectors :
           network = [kind |-> "congestion",
                      sets_l |-> setl,
                      flows |-> UniformTable(cols, fv),
                      FlowMaximum |-> UniformTable(LineLabels, cv),
                      index |-> CongestionIndex]
    /\ window \in Subsequences(CongestionIndex)

dispatch == <<plotdata, idx_zero, sumplot_neg, sumplot_pos, fills, reduced_demand,
              labels, patches, legend, arguments, caller, pdrng>>

\* lines 1108-1109
CongestionColumns ==
    /\ pc = "cols"
    /\ cgst' = EmptyFrame(SelectSeq(network.sets_l, WithoutRoW))
    /\ col_i' = 0
    /\ pc' = "line"
    /\ UNCHANGED <<dispatch, network, window, NetImports, color_map>>

\* lines 1110-1114: one pass of the loop over the columns of flows
CongestionLine ==
    /\ pc = "line"
    /\ col_i < Len(network.flows)
    /\ LET col == network.flows[col_i + 1]
           l == col.label
       IN  cgst' = IF ~StartsWithRoW(l) /\ ~EndsWithRoW(l)
                   THEN SetCell(cgst, l,
                                CongestedCount(col.data, Column(network.FlowMaximum, l),
                                               window))
                   ELSE cgst
    /\ col_i' = col_i + 1
    /\ UNCHANGED <<pc, dispatch, network, window, NetImports, color_map>>

\* lines 1116-1118
CongestionReturn ==
    /\ pc = "line"
    /\ col_i = Len(network.flows)
    /\ cgst' = DivideFrame(FillNa(cgst), DemandRows(network.index, window))
    /\ pc' = "congestion"
    /\ UNCHANGED <<dispatch, network, window, col_i, NetImports, color_map>>

CongestionNext ==
    \/ CongestionColumns
    \/ CongestionLine
    \/ CongestionReturn

CongestionSpec == CongestionInit /\ [][CongestionNext]_vars

(***************************************************************************)
(* plot_net_flows_map (lines 1122-1170).  The flows are the columns        *)
(* <<from, " -> ", to>> of results['OutputFlow']; the node sizes, edge      *)
(* weights and the drawing itself are left out.                            *)
(***************************************************************************)
\* the flow of a line over idx
LineTotal(col, idx) == SumSeq([i \in DOMAIN idx |-> col.data[idx[i]]])

\* inbound minus outbound flow of a zone over idx
NetPosition(flowframe, zone, idx) ==
    SumSeq([c \in DOMAIN flowframe |->
               (IF flowframe[c].label[3] = zone THEN LineTotal(flowframe[c], idx) ELSE 0)
             - (IF flowframe[c].label[1] = zone THEN LineTotal(flowframe[c], idx) ELSE 0)])

\* the inbound flow alone
get_imports(flowframe, zones, idx) ==
    [i \in DOMAIN zones |->
        [label |-> zones[i],
         data  |-> <<SumSeq([c \in DOMAIN flowframe |->
                                IF flowframe[c].label[3] = zones[i]
                                THEN LineTotal(flowframe[c], idx) ELSE 0])>>]]

\* NetImports of get_net_positions: one row, a column per zone
get_net_positions(flowframe, zones, idx) ==
    [i \in DOMAIN zones |->
        [label |-> zones[i], data |-> <<NetPosition(flowframe, zones[i], idx)>>]]

\* lines 1161-1170: the colour of a node
NodeColor(node, netimports) ==
    LET node_neg == {netimports[i].label : i \in {j \in DOMAIN netimports :
                        \E r \in DOMAIN netimports[j].data : netimports[j].data[r] < 0}}
        node_pos == {netimports[i].label : i \in {j \in DOMAIN netimports :
                        \E r \in DOMAIN netimports[j].data : netimports[j].data[r] >= 0}}
    IN  IF node \in node_neg THEN "green"
        ELSE IF node \in node_pos THEN "red"
        ELSE "blue"

\* the index of Demand and of the flows
NetFlowIndex == <<1, 2>>

\* the lines between the zones given
ClosedLines(zones) ==
    SelectSeq(<< <<"Z1", " -> ", "Z2">>, <<"Z2", " -> ", "Z1">>, <<"Z2", " -> ", "Z3">> >>,
              LAMBDA l : l[1] \in Range(zones) /\ l[3] \in Range(zones))

\* results['OutputFlow']: some of the lines, each with one of two flows
OutputFlows(zones) ==
    {[i \in DOMAIN cols |-> [label |-> cols[i], data |-> f[cols[i]]]] :
        cols \in Subsequences(ClosedLines(zones)),
        f \in [Range(ClosedLines(zones)) -> {<<10, 0>>, <<5, 5>>}]}

NetFlowInit ==
    /\ pc = "idx"
    /\ plotdata = <<>>
    /\ plotdata_in = <<>>
    /\ idx_zero = 0
    /\ sumplot_neg = <<>>
    /\ sumplot_pos = <<>>
    /\ fills = <<>>
    /\ labels = <<>>
    /\ patches = <<>>
    /\ legend = <<>>
    /\ demand = NoSeries
    /\ shedload = NoSeries
    /\ shiftedload = NoSeries
    /\ curtailment = NoSeries
    /\ reduced_demand = NoSeries
    /\ level = NoLevel
    /\ aux_in = <<NoSeries, NoSeries, NoSeries, NoSeries>>
    /\ inputs = NoInputs
    /\ z = ""
    /\ lev = <<>>
    /\ log = <<>>
    /\ returned = FALSE
    /\ rng = NoRange
    /\ pdrng = <<>>
    /\ window = <<>>
    /\ cgst = <<>>
    /\ col_i = 0
    /\ NetImports = <<>>
    /\ color_map = <<>>
    /\ \E zones \in {<<"Z1", "Z2">>, <<"Z1", "Z2", "Z3">>} :
       \E flows \in OutputFlows(zones) :
       \E idx \in {NoRange} \cup {IndexRange(w) : w \in Subsequences(NetFlowIndex)} :
           network = [kind |-> "net flows",
                      sets_n |-> zones,
                      OutputFlow |-> flows,
                      index |-> NetFlowIndex,
                      idx |-> idx]

\* lines 1131-1135: without idx, the entire optimization
SelectWindow ==
    /\ pc = "idx"
    /\ window' = IF network.idx = NoRange THEN network.index ELSE network.idx.index
    /\ pc' = "positions"
    /\ UNCHANGED <<dispatch, network, cgst, col_i, NetImports, color_map>>

\* lines 1137-1138
NetPositions ==
    /\ pc = "positions"
    /\ NetImports' = get_net_positions(network.OutputFlow, network.sets_n, window)
    /\ pc' = "colors"
    /\ UNCHANGED <<dispatch, network, window, cgst, col_i, color_map>>

\* lines 1144-1170: the nodes are the zones, each one is given a colour
ColorNodes ==
    /\ pc = "colors"
    /\ color_map' = [i \in DOMAIN network.sets_n |->
                        NodeColor(network.sets_n[i], NetImports)]
    /\ pc' = "map"
    /\ UNCHANGED <<dispatch, network, window, cgst, col_i, NetImports>>

NetFlowNext ==
    \/ SelectWindow
    \/ NetPositions
    \/ ColorNodes

NetFlowSpec == NetFlowInit /\ [][NetFlowNext]_vars

(***************************************************************************)
(* Vocabulary of the properties.                                           *)
(***************************************************************************)
AfterNetting == pc \notin {"range", "valueerror", "net"}
AfterZeroLine == pc \notin {"range", "valueerror", "net", "zero"}
AfterStacks == pc \notin {"range", "valueerror", "net", "zero", "stack"}
AfterBands == pc \in {"curtail", "load", "done", "exit"}

HasBothFlows(frame) == HasColumn(frame, "FlowIn") /\ HasColumn(frame, "FlowOut")

RECURSIVE ColumnsSum(_, _, _, _)
\* the sum at row t of columns a..b (1-based, inclusive) of a frame
ColumnsSum(frame, a, b, t) ==
    IF b < a THEN 0 ELSE ColumnsSum(frame, a, b - 1, t) + frame[b].data[t]

\* the mean of a column is > 0
PositiveMean(col) == SeriesMean(col.data).num * SeriesMean(col.data).den > 0

\* every value of the frame is >= 0
NonNegative(frame) == \A i \in DOMAIN frame : \A t \in Rows(frame) : frame[i].data[t] >= 0

\* every value of the column is 0
AllZero(col) == \A t \in DOMAIN col.data : col.data[t] = 0

\* the number of columns at the front of a frame that are all zero
LeadingZeroColumns(frame) ==
    Cardinality({i \in DOMAIN frame : \A j \in 1..i : AllZero(frame[j])})

\* the fill_between calls of one block, in order
BlockFills(b) == SelectSeq(fills, LAMBDA f : f.block = b)

(***************************************************************************)
(* C1. Netting: with both FlowIn and FlowOut in the frame, after netting   *)
(* FlowOut[t] = min(0, FlowIn[t] + FlowOut[t]) and FlowIn[t] = max(0,      *)
(* FlowIn[t] + FlowOut[t]) on the values before netting; a frame with one  *)
(* or none of the two columns is unchanged.                                *)
(***************************************************************************)
C1_NettingContract ==
    AfterNetting =>
        IF HasBothFlows(plotdata_in)
        THEN \A t \in Rows(plotdata_in) :
                LET s == Column(plotdata_in, "FlowIn")[t] + Column(plotdata_in, "FlowOut")[t]
                IN  /\ Column(plotdata, "FlowOut")[t] = (IF s < 0 THEN s ELSE 0)
                    /\ Column(plotdata, "FlowIn")[t] = (IF s > 0 THEN s ELSE 0)
        ELSE plotdata = plotdata_in

C1_Witness ==
    /\ pc = "zero"
    /\ HasBothFlows(plotdata_in)
    /\ \E t \in Rows(plotdata_in) :
          /\ Column(plotdata_in, "FlowIn")[t] > 0
          /\ Column(plotdata_in, "FlowOut")[t] < 0
          /\ Column(plotdata_in, "FlowIn")[t] + Column(plotdata_in, "FlowOut")[t] > 0
    /\ plotdata # plotdata_in

(***************************************************************************)
(* C2. Netting is idempotent: netting the netted frame again gives the     *)
(* netted frame.                                                           *)
(***************************************************************************)
C2_NettingIdempotent == AfterNetting => SeriesNetter(plotdata) = plotdata

C2_Witness ==
    /\ pc = "zero"
    /\ HasBothFlows(plotdata_in)
    /\ \E t \in Rows(plotdata_in) :
          /\ Column(plotdata_in, "FlowIn")[t] > 0
          /\ Column(plotdata_in, "FlowOut")[t] < 0
          /\ Column(plotdata_in, "FlowIn")[t] + Column(plotdata_in, "FlowOut")[t] < 0
    /\ plotdata # plotdata_in

(***************************************************************************)
(* C3. No caller-supplied series is mutated: when plot_dispatch returns,   *)
(* the caller's plotdata frame and the demand, shedload, shiftedload and   *)
(* curtailment series hold the values they held before the call.           *)
(***************************************************************************)
C3_InputsUnchanged ==
    pc = "done" =>
        /\ plotdata = plotdata_in
        /\ <<demand, shedload, shiftedload, curtailment>> = aux_in

(***************************************************************************)
(* C4. The split index is the smallest index whose column mean over the    *)
(* whole series is > 0, or n - 1 when no column among the first n - 1 has  *)
(* a mean > 0: one decision per column, whatever the signs of its values.  *)
(***************************************************************************)
C4_SplitIndex ==
    AfterZeroLine =>
        LET n        == Len(plotdata)
            positive == {i \in 0..(n - 2) : PositiveMean(plotdata[i + 1])}
        IN  idx_zero = IF positive = {} THEN n - 1
                       ELSE CHOOSE i \in positive : \A j \in positive : i <= j

C4_Witness ==
    /\ pc = "stack"
    /\ idx_zero >= 1
    /\ idx_zero < Len(plotdata) - 1
    /\ \E t \in Rows(plotdata) : plotdata[1].data[t] > 0
    /\ \E t \in Rows(plotdata) : plotdata[1].data[t] < 0
    /\ PositiveMean(plotdata[idx_zero + 1])

(***************************************************************************)
(* C5. As claimed: if every column is non-negative at every timestep, the  *)
(* split index is 0 and the negative block holds no column.                *)
(***************************************************************************)
C5_NonNegativeSplitsAtZero ==
    (AfterStacks /\ NonNegative(plotdata)) => (idx_zero = 0 /\ Len(sumplot_neg) = 1)

(***************************************************************************)
(* C5, amended. If every column is non-negative at every timestep, the     *)
(* split index is the number of leading all-zero columns, at most n - 1;   *)
(* the negative block holds only all-zero columns and all its boundaries   *)
(* are 0; the split index is 0 and the block empty when the first column   *)
(* has a positive value.                                                   *)
(***************************************************************************)
C5_NonNegativeSplit ==
    (AfterStacks /\ NonNegative(plotdata)) =>
        /\ idx_zero = Minimum(LeadingZeroColumns(plotdata), Len(plotdata) - 1)
        /\ \A i \in 1..idx_zero : AllZero(plotdata[i])
        /\ \A j \in DOMAIN sumplot_neg : AllZero(sumplot_neg[j])
        /\ ~AllZero(plotdata[1]) => (idx_zero = 0 /\ Len(sumplot_neg) = 1)

C5_Witness ==
    /\ pc = "draw"
    /\ NonNegative(plotdata)
    /\ idx_zero >= 1
    /\ Len(sumplot_neg) = idx_zero + 1
    /\ ~AllZero(plotdata[idx_zero + 1])

(***************************************************************************)
(* C6. As claimed: for [Export(-5,-5), Curtail(0,0), Gas(60,60),           *)
(* Wind(40,42)] the negative block is Export alone, between -5 and 0, and  *)
(* the positive boundaries are 0, 60, 100 and then 0, 60, 102.             *)
(***************************************************************************)
C6_ExampleExportOnly ==
    (AfterBands /\ plotdata_in = ExampleFrame) =>
        /\ [j \in DOMAIN BlockFills("neg") |-> BlockFills("neg")[j].col2] = <<"Export">>
        /\ BlockFills("neg")[1].y1 = <<-5, -5>>
        /\ BlockFills("neg")[1].y2 = <<0, 0>>
        /\ [j \in DOMAIN sumplot_pos |-> sumplot_pos[j].data[1]] = <<0, 60, 100>>
        /\ [j \in DOMAIN sumplot_pos |-> sumplot_pos[j].data[2]] = <<0, 60, 102>>

(***************************************************************************)
(* C6, amended. For that frame the negative block is Export and Curtail    *)
(* (the mean of Curtail, 0, is not > 0): its boundaries are -5, 0, 0, so   *)
(* Export lies between -5 and 0 and Curtail is the empty band from 0 to 0; *)
(* the positive boundaries are 0, 60, 100 and then 0, 60, 102.             *)
(***************************************************************************)
C6_Example ==
    (AfterBands /\ plotdata_in = ExampleFrame) =>
        /\ idx_zero = 2
        /\ [j \in DOMAIN BlockFills("neg") |-> BlockFills("neg")[j].col2]
              = <<"Export", "Curtail">>
        /\ BlockFills("neg")[1].y1 = <<-5, -5>>
        /\ BlockFills("neg")[1].y2 = <<0, 0>>
        /\ BlockFills("neg")[2].y1 = <<0, 0>>
        /\ BlockFills("neg")[2].y2 = <<0, 0>>
        /\ [j \in DOMAIN sumplot_neg |-> sumplot_neg[j].label] = <<"sum", "Export", "Curtail">>
        /\ [j \in DOMAIN sumplot_pos |-> sumplot_pos[j].label] = <<"zero", "Gas", "Wind">>
        /\ [j \in DOMAIN sumplot_pos |-> sumplot_pos[j].data[1]] = <<0, 60, 100>>
        /\ [j \in DOMAIN sumplot_pos |-> sumplot_pos[j].data[2]] = <<0, 60, 102>>

C6_Witness == pc = "done" /\ plotdata_in = ExampleFrame /\ Len(BlockFills("pos")) = 2

(***************************************************************************)
(* C7. Conservation: at every timestep the last boundary of the positive   *)
(* block plus the floor of the negative block is the sum of all columns of *)
(* the frame, as passed by the caller and as netted.                       *)
(***************************************************************************)
C7_Conservation ==
    AfterStacks =>
        \A t \in Rows(plotdata_in) :
            /\ sumplot_pos[Len(sumplot_pos)].data[t] + sumplot_neg[1].data[t]
                  = ColumnsSum(plotdata_in, 1, Len(plotdata_in), t)
            /\ sumplot_pos[Len(sumplot_pos)].data[t] + sumplot_neg[1].data[t]
                  = ColumnsSum(plotdata, 1, Len(plotdata), t)

C7_Witness ==
    /\ pc = "done"
    /\ plotdata # plotdata_in
    /\ idx_zero >= 1
    /\ \E t \in Rows(plotdata) :
          /\ sumplot_neg[1].data[t] < 0
          /\ sumplot_pos[Len(sumplot_pos)].data[t] > 0

(***************************************************************************)
(* C8. The boundaries of the positive block are prefix sums from zero: the *)
(* first is 0, the one after the i-th positive column is the sum of        *)
(* columns k..k+i, and each band starts where the previous one ends.       *)
(***************************************************************************)
C8_PositivePrefixSums ==
    AfterBands =>
        LET k   == idx_zero
            m   == Len(plotdata) - idx_zero
            pos == BlockFills("pos")
        IN  /\ Len(sumplot_pos) = m + 1
            /\ \A t \in Rows(plotdata) : sumplot_pos[1].data[t] = 0
            /\ \A i \in 1..m : \A t \in Rows(plotdata) :
                  sumplot_pos[i + 1].data[t] = ColumnsSum(plotdata, k + 1, k + i, t)
            /\ Len(pos) = m
            /\ \A i \in 1..m :
                  /\ pos[i].col2 = plotdata[k + i].label
                  /\ pos[i].y1 = sumplot_pos[i].data
                  /\ pos[i].y2 = sumplot_pos[i + 1].data
            /\ \A i \in 1..(m - 1) : pos[i + 1].y1 = pos[i].y2

C8_Witness ==
    /\ pc = "done"
    /\ Len(plotdata) - idx_zero >= 2
    /\ \E t \in Rows(plotdata) :
          /\ plotdata[idx_zero + 1].data[t] # 0
          /\ plotdata[idx_zero + 2].data[t] # 0

(***************************************************************************)
(* C9. The boundaries of the negative block walk from the sum S of columns *)
(* 0..k-1 to zero: the first is S, the one after the j-th negative column  *)
(* is S less the sum of columns 0..j, each band starts where the previous  *)
(* one ends, and the one after the last negative column is 0.              *)
(***************************************************************************)
C9_NegativeWalk ==
    AfterBands =>
        LET k   == idx_zero
            neg == BlockFills("neg")
        IN  /\ Len(sumplot_neg) = k + 1
            /\ \A t \in Rows(plotdata) : sumplot_neg[1].data[t] = ColumnsSum(plotdata, 1, k, t)
            /\ \A j \in 1..k : \A t \in Rows(plotdata) :
                  sumplot_neg[j + 1].data[t]
                      = ColumnsSum(plotdata, 1, k, t) - ColumnsSum(plotdata, 1, j, t)
            /\ k >= 1 => \A t \in Rows(plotdata) : sumplot_neg[k + 1].data[t] = 0
            /\ Len(neg) = k
            /\ \A j \in 1..k :
                  /\ neg[j].col2 = plotdata[j].label
                  /\ neg[j].y1 = sumplot_neg[j].data
                  /\ neg[j].y2 = sumplot_neg[j + 1].data
            /\ \A j \in 1..(k - 1) : neg[j + 1].y1 = neg[j].y2

C9_Witness ==
    /\ pc = "done"
    /\ idx_zero >= 2
    /\ \E t \in Rows(plotdata) :
          /\ plotdata[1].data[t] < 0
          /\ plotdata[2].data[t] < 0

(***************************************************************************)
(* C10. As claimed: the last boundary of the negative block is the sum of  *)
(* all the columns of the negative block at every timestep.                *)
(***************************************************************************)
C10_LastBoundaryIsSum ==
    AfterStacks =>
        \A t \in Rows(plotdata) :
            sumplot_neg[Len(sumplot_neg)].data[t] = ColumnsSum(plotdata, 1, idx_zero, t)

(***************************************************************************)
(* C10, amended. The first boundary of the negative block (its floor, the  *)
(* column 'sum') is the sum of all the columns of the negative block at    *)
(* every timestep; the last boundary is 0 when the block holds a column,   *)
(* so it is that sum only where the sum is 0.                              *)
(***************************************************************************)
C10_FirstBoundaryIsSum ==
    AfterStacks =>
        \A t \in Rows(plotdata) :
            LET S == ColumnsSum(plotdata, 1, idx_zero, t)
            IN  /\ sumplot_neg[1].label = "sum"
                /\ sumplot_neg[1].data[t] = S
                /\ idx_zero >= 1 => sumplot_neg[Len(sumplot_neg)].data[t] = 0
                /\ (sumplot_neg[Len(sumplot_neg)].data[t] = S) <=> (S = 0)

C10_Witness ==
    /\ pc = "done"
    /\ idx_zero >= 1
    /\ \E t \in Rows(plotdata) :
          /\ sumplot_neg[1].data[t] < 0
          /\ sumplot_neg[Len(sumplot_neg)].data[t] = 0

(***************************************************************************)
(* C11. Legend labelling: every band of the negative and of the positive   *)
(* block is recorded under the column after the boundary (col2), in the    *)
(* labels list and in the patch with its colour and hatch, and the         *)
(* synthetic boundaries 'sum' and 'zero' never appear in labels.  Line 132 *)
(* appends col1 for a negative band.                                       *)
(***************************************************************************)
C11_LabelsFollowBoundary ==
    AfterBands =>
        LET bands == BlockFills("neg") \o BlockFills("pos")
        IN  /\ "sum" \notin Range(labels)
            /\ "zero" \notin Range(labels)
            /\ \A j \in DOMAIN bands :
                  /\ bands[j].col2 \in Range(labels)
                  /\ Patch(bands[j].col2, bands[j].col2, bands[j].col2) \in Range(patches)

(***************************************************************************)
(* C12. Adjusted demand: when the call returns, the reduced demand is on   *)
(* the demand's index and at every timestep equals demand - shedload -     *)
(* shiftedload, an absent series counting as 0; it is not clamped and may  *)
(* be negative.                                                            *)
(***************************************************************************)
C12_AdjustedDemand ==
    pc = "done" =>
        LET deducted(s, t) == IF s.present THEN s.data[t] ELSE 0
        IN  /\ reduced_demand.present
            /\ reduced_demand.index = demand.index
            /\ DOMAIN reduced_demand.data = DOMAIN demand.data
            /\ \A t \in DOMAIN demand.data :
                  reduced_demand.data[t] =
                      demand.data[t] - deducted(shedload, t) - deducted(shiftedload, t)
            /\ (~shedload.present /\ ~shiftedload.present) =>
                  reduced_demand.data = demand.data

C12_Witness ==
    /\ pc = "done"
    /\ shedload.present
    /\ shiftedload.present
    /\ \E t \in DOMAIN demand.data :
          /\ shedload.data[t] > 0
          /\ shiftedload.data[t] > 0
          /\ reduced_demand.data[t] < 0

(***************************************************************************)
(* C13. Index validation: a supplied shedload, shiftedload or curtailment  *)
(* whose index is not exactly the demand's index (same timestamps, same    *)
(* order) makes the call exit without a result; the call exits for that    *)
(* reason only, and returns only when every supplied index is identical.   *)
(***************************************************************************)
IndexMismatch(s) == s.present /\ s.index # demand.index

C13_IndexValidation ==
    LET mismatch == \/ IndexMismatch(shedload)
                    \/ IndexMismatch(shiftedload)
                    \/ IndexMismatch(curtailment)
    IN  /\ pc = "done" => ~mismatch
        /\ pc = "load" => ~IndexMismatch(curtailment)
        /\ pc = "exit" => /\ mismatch
                          /\ reduced_demand = NoSeries
                          /\ legend = <<>>

C13_Witness ==
    /\ pc = "exit"
    /\ shedload.present
    /\ Len(shedload.index) = Len(demand.index)
    /\ shedload.index # demand.index
    /\ ~IndexMismatch(shiftedload)
    /\ ~IndexMismatch(curtailment)

(***************************************************************************)
(* Vocabulary of the properties of plot_zone.                              *)
(***************************************************************************)
\* the table has a column for the zone considered and lacks a timestamp of
\* the demand
MissesTimestamp(table) ==
    /\ pc # "zone"
    /\ InTable(table, z)
    /\ \E ts \in Range(inputs.Demand.index) : ts \notin Range(table.index)

\* plot_dispatch has been entered from plot_zone
Dispatched == pc \in {"range", "valueerror", "net", "zero", "stack", "draw", "curtail", "load",
                      "done", "exit", "keyerror", "returned"}

(***************************************************************************)
(* C14. No silent alignment: when the shed-load or the shifted-load series *)
(* of the zone lacks a timestamp of the demand, plot_zone does not return  *)
(* and the series passed on is not a reindexed one on the demand's index.  *)
(* Lines 411 and 416 reindex the series and fill the gap with 0.           *)
(***************************************************************************)
C14_NoSilentAlignment ==
    /\ MissesTimestamp(inputs.OutputShedLoad) =>
          /\ ~returned
          /\ shedload.present => shedload.index # demand.index
    /\ MissesTimestamp(inputs.OutputDemandModulation) =>
          /\ ~returned
          /\ shiftedload.present => shiftedload.index # demand.index

\* the balance diagnostics logged
BalanceFlags ==
    LET IsBalance(entry) == entry.msg = "balance"
    IN  SelectSeq(log, IsBalance)

\* the generation of the example: 100 GW but g GW at the last timestamp
ExampleBalance(g) ==
    /\ demand.data = Const(100)
    /\ shedload.data = Const(0)
    /\ shiftedload.data = Const(0)
    /\ \A t \in 1..NumSteps : RowTotal(plotdata, t) = IF t = NumSteps THEN g ELSE 100

(***************************************************************************)
(* C15. Balance violation flag: with residual = generation - demand +      *)
(* shifted load + shed load, a diagnostic is logged exactly when the       *)
(* largest |residual| exceeds 1% of the largest demand (equality does not  *)
(* flag), and it carries 100 * max|residual| / max(demand) percent: demand *)
(* 100, 100 with generation 100, 102 flags 2%, generation 100, 100 flags   *)
(* nothing.                                                                *)
(***************************************************************************)
C15_BalanceFlag ==
    pc = "call" =>
        LET residual == [t \in DOMAIN demand.data |->
                            RowTotal(plotdata, t) - demand.data[t]
                                + shiftedload.data[t] + shedload.data[t]]
            maxAbs   == SeriesMax([t \in DOMAIN residual |-> Abs(residual[t])])
            maxDem   == SeriesMax(demand.data)
            flags    == BalanceFlags
        IN  /\ Len(flags) <= 1
            /\ Len(flags) = 1 <=> 100 * maxAbs > maxDem
            /\ Len(flags) = 1 =>
                  /\ flags[1].deviation.den = maxDem
                  /\ flags[1].deviation.num = 100 * maxAbs
            /\ 100 * maxAbs = maxDem => flags = <<>>
            /\ ExampleBalance(102) =>
                  /\ Len(flags) = 1
                  /\ flags[1].deviation.num = 2 * flags[1].deviation.den
            /\ ExampleBalance(100) => flags = <<>>

C15_Witness ==
    /\ pc = "call"
    /\ ExampleBalance(102)
    /\ Len(BalanceFlags) = 1
    /\ BalanceFlags[1].deviation = [num |-> 200, den |-> 100]

(***************************************************************************)
(* C16. The balance violation is advisory: the balance check, flagging or  *)
(* not, only adds to the log and goes on to the curtailment and the call   *)
(* of plot_dispatch, whose arguments are the plot data, level, demand,     *)
(* shed and shifted load computed before the check and the curtailment of  *)
(* the results; nothing of them depends on the diagnostic.                 *)
(***************************************************************************)
C16_Advisory ==
    [][/\ pc = "balance" =>
             /\ pc' = "call"
             /\ UNCHANGED <<grid, plotdata, level, demand, shedload, shiftedload,
                            inputs, z, lev, returned>>
       /\ pc = "call" =>
             /\ pc' = "range"
             /\ plotdata_in' = plotdata
             /\ level' = level
             /\ aux_in' = <<demand, shedload, shiftedload, ZoneCurtailment(inputs, z)>>
             /\ UNCHANGED <<grid, plotdata, demand, shedload, shiftedload, log>>]_vars

C16_Witness ==
    /\ returned
    /\ pc = "returned"
    /\ BalanceFlags # <<>>
    /\ reduced_demand.present
    /\ legend # <<>>

\* the storage levels of the zone have been computed from the results
AfterStorage == pc \notin {"zone", "storage"} /\ inputs.OutputStorageLevel.present

RECURSIVE TechTotal(_, _, _)
\* the sum at row t of the columns of a frame of unit levels whose unit is
\* a storage unit of technology f
TechTotal(frame, f, t) ==
    IF frame = <<>> THEN 0
    ELSE (IF /\ UnitOf(inputs.units, frame[1].label).tech = f
             /\ UnitOf(inputs.units, frame[1].label).subset = "s"
          THEN frame[1].data[t] ELSE 0)
         + TechTotal(Tail(frame), f, t)

(***************************************************************************)
(* C17. Zero-drop invariant: the level frame passed on by plot_zone has no *)
(* family column whose maximum and minimum are both 0, and every family    *)
(* whose summed level is 0 at every timestamp, a family without a unit in  *)
(* the zone included, is absent from it.                                   *)
(***************************************************************************)
C17_ZeroDrop ==
    AfterStorage =>
        /\ level.kind = "frame"
        /\ \A j \in DOMAIN level.frame :
              ~(SeriesMax(level.frame[j].data) = 0 /\ SeriesMin(level.frame[j].data) = 0)
        /\ \A f \in Range(StorageFamilies) :
              (\A t \in 1..NumSteps : TechTotal(lev, f, t) = 0) =>
                  ~HasColumn(level.frame, f)

C17_Witness ==
    /\ AfterStorage
    /\ \E i, j \in DOMAIN lev :
          LET fi == UnitOf(inputs.units, lev[i].label).tech
              fj == UnitOf(inputs.units, lev[j].label).tech
          IN  /\ fi \in Range(StorageFamilies)
              /\ fj \in Range(StorageFamilies)
              /\ \A t \in 1..NumSteps : TechTotal(lev, fi, t) = 0
              /\ ~HasColumn(level.frame, fi)
              /\ HasColumn(level.frame, fj)

(***************************************************************************)
(* C18. Vehicle availability weighting: the level of exactly the storage   *)
(* units of the battery-vehicle family (BEVS) is multiplied, timestep by   *)
(* timestep, by the unit's availability factor; the level of every other   *)
(* unit is left unweighted.  Line 375 selects the units by the text of     *)
(* their name, not by their technology.                                    *)
(***************************************************************************)
C18_VehicleWeighting ==
    AfterStorage =>
        \A j \in DOMAIN lev :
            LET unit   == UnitOf(inputs.units, lev[j].label)
                raw    == Column(inputs.OutputStorageLevel.cols, unit.name)
                factor == Column(inputs.AvailabilityFactor.cols, unit.name)
            IN  \A t \in 1..NumSteps :
                    lev[j].data[t] =
                        ((raw[t] * unit.capacity) \div Scale)
                            * (IF unit.tech = "BEVS" THEN factor[t] ELSE 1)

\* the names of the columns of results['OutputStorageLevel'] whose unit is
\* located in the zone considered
UnitsOfZone ==
    LET cols == inputs.OutputStorageLevel.cols
        InZone(col) == UnitOf(inputs.units, col.label).zone = z
        mine == SelectSeq(cols, InZone)
    IN  [j \in DOMAIN mine |-> mine[j].label]

(***************************************************************************)
(* C19. Family aggregation: the level passed on by plot_zone is the frame  *)
(* of the families; the unit levels summed are those of the units of the   *)
(* zone and no other; every retained family column equals, at every        *)
(* timestep, the sum of the scaled and weighted levels of the storage      *)
(* units of that family in the zone, and every family with a non-zero sum  *)
(* is retained once.                                                       *)
(***************************************************************************)
C19_FamilyAggregation ==
    AfterStorage =>
        /\ level.kind = "frame"
        /\ [j \in DOMAIN lev |-> lev[j].label] = UnitsOfZone
        /\ \A j \in DOMAIN level.frame :
              /\ level.frame[j].label \in Range(StorageFamilies)
              /\ \A t \in 1..NumSteps :
                    level.frame[j].data[t] = TechTotal(lev, level.frame[j].label, t)
              /\ \A i \in DOMAIN level.frame :
                    level.frame[i].label = level.frame[j].label => i = j
        /\ \A f \in Range(StorageFamilies) :
              (\E t \in 1..NumSteps : TechTotal(lev, f, t) # 0) => HasColumn(level.frame, f)

C19_Witness ==
    /\ AfterStorage
    /\ Len(lev) = 2
    /\ UnitOf(inputs.units, lev[1].label).tech = UnitOf(inputs.units, lev[2].label).tech
    /\ Len(level.frame) = 1
    /\ \E t \in 1..NumSteps :
          /\ lev[1].data[t] > 0
          /\ lev[2].data[t] > 0
          /\ level.frame[1].data[t] = lev[1].data[t] + lev[2].data[t]

(***************************************************************************)
(* C20. Unknown labels: a label outside the colour, hatch and family       *)
(* tables never makes the stacking or the storage aggregation fail and is  *)
(* never dropped: the storage levels of a technology outside the families  *)
(* are carried in a column 'Other', so that at every timestep the total of *)
(* the family frame is the total of the storage units of the zone.         *)
(* commons['colors'][col2] raises KeyError for a label without colour, and *)
(* lines 379-382 keep the six families only.                               *)
(***************************************************************************)
C20_UnknownLabels ==
    /\ pc # "keyerror"
    /\ AfterStorage =>
          LET stored == filter_by_storage(lev, inputs.units, "s")
          IN  /\ \A t \in 1..NumSteps :
                    RowTotal(level.frame, t) = RowTotal(stored, t)
              /\ \A j \in DOMAIN stored :
                    (/\ UnitOf(inputs.units, stored[j].label).tech
                            \notin Range(StorageFamilies)
                     /\ \E t \in 1..NumSteps : stored[j].data[t] # 0)
                        => HasColumn(level.frame, "Other")

(***************************************************************************)
(* Vocabulary of the plotting window.                                      *)
(***************************************************************************)
\* the timestamps plotted have been selected
AfterRange == pc \notin {"zone", "storage", "demand", "balance", "call",
                         "range", "valueerror"}

\* the rng given starts or ends outside the index of the frame
RangeOutside == rng.kind = "index" /\ OutsideIndex(rng.index, FrameIndex(plotdata_in))

(***************************************************************************)
(* C25. Default plotting window: with rng undefined the timestamps plotted *)
(* are the first 7*24 of the frame whenever it has at least 7*24 rows; the *)
(* same window is used, with a warning and without failing, for an rng     *)
(* that starts or ends outside the index of the frame.  Line 45 takes      *)
(* min(len(plotdata) - 1, 7 * 24) timestamps.                              *)
(***************************************************************************)
C25_DefaultWindow ==
    LET index == FrameIndex(plotdata_in)
    IN  /\ (AfterRange /\ (rng.kind = "none" \/ RangeOutside) /\ Len(index) >= 7 * 24) =>
              pdrng = SubSeq(index, 1, 7 * 24)
        /\ (AfterRange /\ RangeOutside) => log # <<>>
        /\ (pc = "valueerror") => ~RangeOutside

(***************************************************************************)
(* C27. The positive block is never empty: for a frame of n >= 1 columns   *)
(* the split index k is in 0..n-1, the negative block holds the columns    *)
(* before k and the last column of the frame is always the last band of    *)
(* the positive block; when every column has a mean <= 0, k = n - 1.       *)
(***************************************************************************)
C27_PositiveBlockNotEmpty ==
    LET n == Len(plotdata)
    IN  /\ AfterZeroLine =>
              /\ n >= 1
              /\ idx_zero \in 0..(n - 1)
              /\ (\A i \in 1..n : MeanLeqZero(SeriesMean(plotdata[i].data))) =>
                     idx_zero = n - 1
        /\ AfterStacks =>
              /\ Len(sumplot_neg) = idx_zero + 1
              /\ Len(sumplot_pos) = n - idx_zero + 1
              /\ Len(sumplot_pos) >= 2
              /\ sumplot_pos[Len(sumplot_pos)].label = plotdata[n].label
        /\ AfterBands =>
              /\ BlockFills("pos") # <<>>
              /\ BlockFills("pos")[Len(BlockFills("pos"))].col2 = plotdata[n].label
              /\ BlockFills("pos")[1].y1 = [t \in Rows(plotdata) |-> 0]

C27_Witness ==
    /\ AfterBands
    /\ Len(plotdata) >= 2
    /\ \A i \in 1..Len(plotdata) :
          /\ MeanLeqZero(SeriesMean(plotdata[i].data))
          /\ \E t \in Rows(plotdata) : plotdata[i].data[t] < 0
    /\ idx_zero = Len(plotdata) - 1
    /\ Len(BlockFills("pos")) = 1

(***************************************************************************)
(* C29. A failed call has no effect on its inputs: when plot_dispatch ends *)
(* with a failure (an rng of another type, an index of curtailment,        *)
(* shedload or shiftedload that differs from the demand's) the caller's    *)
(* frame, FlowIn and FlowOut included, holds the values it held before the *)
(* call.  The index checks come after the netting of lines 56-59.          *)
(***************************************************************************)
C29_FailureLeavesInputs ==
    pc \in {"exit", "valueerror"} =>
        /\ plotdata = plotdata_in
        /\ <<demand, shedload, shiftedload, curtailment>> = aux_in

\* plot_dispatch, entered from plot_zone, has netted the frame
ZoneNetted ==
    pc \in {"zero", "stack", "draw", "curtail", "load", "done", "exit",
            "keyerror", "returned"}

(***************************************************************************)
(* C28. Netting preserves the energy sum: at every timestep the netted     *)
(* FlowIn + FlowOut equals FlowIn + FlowOut of before, so the row sums of  *)
(* the frame are unchanged, and the balance residual and the diagnostic    *)
(* that plot_zone computed before the netting are those the netted frame   *)
(* gives.                                                                  *)
(***************************************************************************)
C28_NettingPreservesSum ==
    ZoneNetted =>
        /\ HasBothFlows(plotdata_in) =>
              \A t \in Rows(plotdata_in) :
                  Column(plotdata, "FlowIn")[t] + Column(plotdata, "FlowOut")[t]
                      = Column(plotdata_in, "FlowIn")[t] + Column(plotdata_in, "FlowOut")[t]
        /\ \A t \in Rows(plotdata_in) : RowTotal(plotdata, t) = RowTotal(plotdata_in, t)
        /\ BalanceDiff(plotdata, demand, shedload, shiftedload)
              = BalanceDiff(plotdata_in, demand, shedload, shiftedload)
        /\ BalanceLog(plotdata, demand, shedload, shiftedload, z) = BalanceFlags

C28_Witness ==
    /\ ZoneNetted
    /\ HasBothFlows(plotdata_in)
    /\ plotdata # plotdata_in
    /\ \E t \in Rows(plotdata_in) :
          /\ Column(plotdata_in, "FlowOut")[t] < 0
          /\ Column(plotdata_in, "FlowIn")[t] > 0
          /\ Column(plotdata, "FlowOut")[t] < 0
          /\ Column(plotdata, "FlowIn")[t] = 0
    /\ BalanceFlags # <<>>

\* C30: the zone plotted is always one of the result zones: a zone given and
\* present is used as given, an empty or unknown one is replaced by a zone of
\* the results without failing, and the plot data, the storage levels, the
\* demand, the shed and shifted load, the curtailment and the balance
\* messages are all those of that one zone.
C30_ZoneSelection ==
    (inputs # NoInputs /\ pc # "zone") =>
        /\ z \in Range(inputs.sets.n)
        /\ inputs.z_arg \in Range(inputs.sets.n) => z = inputs.z_arg
        /\ pc \in {"storage", "demand", "balance", "call"} =>
               plotdata = ScaleFrame(get_plot_data(inputs, z))
        /\ pc \notin {"storage"} =>
               /\ lev = UnitLevels(inputs, z)
               /\ level = ZoneLevel(inputs, lev)
        /\ pc \notin {"storage", "demand"} =>
               /\ demand = ZoneDemand(inputs, z)
               /\ shedload = ZoneShedLoad(inputs, z, demand)
               /\ shiftedload = ZoneShiftedLoad(inputs, z, demand)
        /\ pc \notin {"storage", "demand", "balance", "call"} =>
               /\ plotdata_in = ScaleFrame(get_plot_data(inputs, z))
               /\ curtailment = ZoneCurtailment(inputs, z)
        /\ \A i \in 1..Len(log) :
               log[i].msg \in {"randomly selected", "balance"} => log[i].zone = z

\* an unknown zone was given, the second zone of the results was drawn and the
\* plot was completed with its storage level
C30_Witness ==
    /\ returned
    /\ inputs.z_arg = "ZZ"
    /\ z = "Z2"
    /\ lev # <<>>
    /\ level # NoLevel
    /\ plotdata_in # ScaleFrame(get_plot_data(inputs, "Z1"))

\* get_congestion has returned
CongestionReturned == pc = "congestion"

\* the lines that are neither from nor to the rest of the world
Included(l) == ~StartsWithRoW(l) /\ ~EndsWithRoW(l)

\* the labels of a frame
ColumnLabels(frame) == {frame[i].label : i \in DOMAIN frame}

\* the lines of the flow table that are not excluded
IncludedFlows == {l \in ColumnLabels(network.flows) : Included(l)}

\* C21: the fraction of a non-excluded line is the number of congested
\* timestamps of the window divided by the length of the full demand
\* horizon, whatever the length of the window.
C21_FullHorizonDivisor ==
    CongestionReturned =>
        \A i \in DOMAIN cgst :
            cgst[i].label \in IncludedFlows =>
                cgst[i].data =
                    <<Fraction(CongestedCount(Column(network.flows, cgst[i].label),
                                              Column(network.FlowMaximum, cgst[i].label),
                                              window),
                               Len(network.index))>>

\* C22: a line is in the result exactly when its label neither starts nor
\* ends with RoW, for every line of the line set and of the flow table.
C22_RestOfWorldExclusion ==
    CongestionReturned =>
        \A l \in Range(network.sets_l) \cup ColumnLabels(network.flows) :
            l \in ColumnLabels(cgst) <=> Included(l)

\* C23: every fraction returned lies in [0, 1], for any flow table, capacity
\* table and window.
C23_UnitInterval ==
    CongestionReturned =>
        \A i \in DOMAIN cgst : \A r \in DOMAIN cgst[i].data :
            LET f == cgst[i].data[r]
            IN  f.den > 0 /\ 0 <= f.num /\ f.num <= f.den

\* get_net_positions has been called
AfterPositions == pc \in {"colors", "map"}

\* the net position of a zone
PositionOf(zone) == Column(NetImports, zone)[1]

\* the flow over the window of the lines from zone a to zone b
FlowBetween(a, b) ==
    SumSeq([c \in DOMAIN network.OutputFlow |->
               IF network.OutputFlow[c].label = <<a, " -> ", b>>
               THEN LineTotal(network.OutputFlow[c], window) ELSE 0])

\* C24: the net position of a zone is its inbound minus its outbound flow
\* over the window; the net positions of a closed flow matrix add up to 0,
\* and a single flow of 10 from one zone to another gives -10 and 10.
C24_NetPositionConservation ==
    AfterPositions =>
        LET zones == network.sets_n
        IN  /\ \A i \in DOMAIN zones :
                  PositionOf(zones[i]) =
                      SumSeq([j \in DOMAIN zones |-> FlowBetween(zones[j], zones[i])])
                    - SumSeq([j \in DOMAIN zones |-> FlowBetween(zones[i], zones[j])])
            /\ SumSeq([i \in DOMAIN zones |-> PositionOf(zones[i])]) = 0
            /\ (/\ Len(network.OutputFlow) = 1
                /\ network.OutputFlow[1].label = <<"Z1", " -> ", "Z2">>
                /\ LineTotal(network.OutputFlow[1], window) = 10)
               => PositionOf("Z1") = -10 /\ PositionOf("Z2") = 10

\* two zones and a single flow of 10 from the first to the second
C24_Witness ==
    /\ AfterPositions
    /\ network.sets_n = <<"Z1", "Z2">>
    /\ Len(network.OutputFlow) = 1
    /\ network.OutputFlow[1].label = <<"Z1", " -> ", "Z2">>
    /\ PositionOf("Z1") = -10
    /\ PositionOf("Z2") = 10

\* C26: every zone has one colour: green exactly for a net exporter, red
\* exactly for a net importer, blue for a net position of zero.
C26_ColoursFollowLegend ==
    pc = "map" =>
        /\ Len(color_map) = Len(network.sets_n)
        /\ \A i \in DOMAIN network.sets_n :
               LET p == PositionOf(network.sets_n[i])
               IN  /\ color_map[i] = "green" <=> p < 0
                   /\ color_map[i] = "red" <=> p > 0
                   /\ color_map[i] = "blue" <=> p = 0
====
